---- MODULE Spec2Model ----
(***************************************************************************)
(* Geometric reconstruction engine of the floor-plan editor: geometry      *)
(* kernel, room detection, topology normalisation, snapping, furniture     *)
(* docking and scale calibration.                                          *)
(*                                                                         *)
(* Lengths are integers in centimetres (1 m = UnitsPerMeter units); a      *)
(* point is a pair <<x, y>>.  Real-valued quantities the code computes by  *)
(* division (t parameters, scale factors, centroids) are kept as exact     *)
(* fractions numerator/denominator; square roots are avoided by comparing  *)
(* squared distances.  Walls fed to the algorithms are axis-aligned, so    *)
(* every projection and cut point is again a lattice point.                *)
(***************************************************************************)
EXTENDS Integers, Sequences, FiniteSets, TLC

VARIABLES
    walls,        \* the editor's wall list (state.walls)
    rooms,        \* rooms = detectRooms(state.walls), recomputed when walls change
    viewerRooms,  \* the 3D viewer's own useMemo(() => detectRooms(walls))
    candidates,     \* convertVisionToWalls: the wall candidates
    footprintWalls, \* convertVisionToWalls: the footprint edges
    finalWalls,     \* convertVisionToWalls: the walls the normalization pass returns
    renormalized,   \* the pass applied to its own output
    worldPos,     \* pointer / drop position in world coordinates
    snappedPos,   \* snappedPos = snapToVertex(worldPos)
    item,         \* the furniture item being placed
    alignedItem,  \* alignedItem = alignFurnitureToWall(item, worldPos)
    data,         \* the vision response handed to convertVisionToWalls
    targetArea,   \* convertVisionToWalls: target area (0 when absent)
    constraints,  \* convertVisionToWalls: site constraints (<<>> when absent)
    scale,        \* convertVisionToWalls: the computed scale factor
    segment,      \* the segment a point is projected on
    projection,   \* projection = projectPointOnSegment(worldPos, a, b)
    objects,        \* state.objects: doors, windows and openings on walls
    selectedId,     \* state.selectedId (0 for null)
    past,           \* useHistory: past states
    future,         \* useHistory: future states
    mode,           \* viewState.mode
    activeWallId,   \* the wall being drawn (0 for null)
    movingWallId,   \* the wall being dragged (0 for null)
    movingObjectId, \* the wall object being dragged (0 for null)
    dragOffset,     \* drag anchor: 'start', 'end' or a point
    nextId,         \* the next fresh id uuidv4() hands out
    stage,          \* retryWithBackoff: the request its operation sends
    retriesArg,     \* retryWithBackoff: retries of the outermost call
    retries,        \* retryWithBackoff: retries of the current call
    baseDelay,      \* retryWithBackoff: baseDelay of the current call
    invocations,    \* retryWithBackoff: invocations of the operation so far
    waits,          \* retryWithBackoff: the delays waited so far
    errors,         \* retryWithBackoff: the messages of the errors caught
    thrown,         \* retryWithBackoff: the message it rejected with
    result,         \* retryWithBackoff: the value it resolved with
    pendingDelay,   \* retryWithBackoff: the delay of the running timer
    rpc,            \* retryWithBackoff: invoke, waiting, resolved, rejected
    requests,       \* the network requests sent, in order
    baseDelayArg,   \* retryWithBackoff: baseDelay of the outermost call
    form,           \* generateLayout: data and apiKey
    gpc,            \* generateLayout / handleAIGenerate: position
    base64Image,    \* mockOrRealImplementation: the generated image
    structText,     \* mockOrRealImplementation: the structural response
    structData,     \* mockOrRealImplementation: the parsed structural scan
    furnText,       \* mockOrRealImplementation: the furniture response
    furnData,       \* mockOrRealImplementation: the parsed furniture scan
    layout,         \* what generateLayout resolved with
    generateError,  \* what generateLayout rejected with
    furnitureBuffer, \* convertVisionToWalls: furnitureBuffer before the nightstand pass
    finalFurniture,  \* convertVisionToWalls: finalFurniture
    activeTab,       \* Layout: activeTab
    wallHeight,      \* wall.height of the wall the 3D viewer builds
    wallObject,      \* the door, window or opening on that wall
    cutout,          \* SegmentedWall: the hole cut for the object
    aiVariant, \* AIService: which of the two versions of the class is built
    lastConstraints, \* AIService._lastConstraints, the static field
    inFlight, \* generateLayout: the calls in flight, by caller
    imageRequests, \* the image requests sent, in order
    gestureBase, \* history variable: the present when the wall gesture began
    gestureResult, \* history variable: the present when the wall gesture ended
    pc            \* position of the computation under study

roomVars == <<walls, rooms, viewerRooms>>
normVars == <<candidates, footprintWalls, finalWalls, renormalized>>
toolVars == <<worldPos, snappedPos, item, alignedItem, data, targetArea,
              constraints, scale, segment, projection>>
editorVars == <<objects, selectedId, past, future, mode, activeWallId,
                movingWallId, movingObjectId, dragOffset, nextId>>
retryVars == <<stage, retriesArg, baseDelayArg, retries, baseDelay, invocations,
               waits, errors, thrown, result, pendingDelay, rpc, requests>>
importVars == <<form, gpc, base64Image, structText, structData, furnText, furnData,
                layout, generateError>>
aiVars == <<stage, retriesArg, baseDelayArg, retries, baseDelay, invocations, waits,
            errors, thrown, result, pendingDelay, rpc, requests, form, gpc,
            base64Image, structText, structData, furnText, furnData, layout,
            generateError>>
nestVars == <<furnitureBuffer, finalFurniture>>
viewerVars == <<activeTab, wallHeight, wallObject, cutout>>
concVars == <<aiVariant, lastConstraints, inFlight, imageRequests>>
traceVars == <<gestureBase, gestureResult>>
extVars == <<furnitureBuffer, finalFurniture, activeTab, wallHeight, wallObject,
             cutout,
             aiVariant,
             lastConstraints,
             inFlight,
             imageRequests,
             gestureBase,
             gestureResult>>
vars == <<walls, rooms, viewerRooms, candidates, footprintWalls, finalWalls,
          renormalized, worldPos, snappedPos, item, alignedItem, data,
          targetArea, constraints, scale, segment, projection, objects,
          selectedId, past, future, mode, activeWallId, movingWallId,
          movingObjectId, dragOffset, nextId, stage, retriesArg, retries,
          baseDelay, invocations, waits, errors, thrown, result, pendingDelay,
          rpc, requests, baseDelayArg, form, gpc, base64Image, structText,
          structData, furnText, furnData, layout, generateError,
          furnitureBuffer, finalFurniture,
          activeTab, wallHeight, wallObject, cutout,
          aiVariant,
          lastConstraints,
          inFlight,
          imageRequests,
          gestureBase,
          gestureResult, pc>>

\* The editor as useCanvas constructs it, apart from the wall list.
EditorIdle ==
    /\ objects = <<>>
    /\ selectedId = 0
    /\ past = <<>>
    /\ future = <<>>
    /\ mode = "select"
    /\ activeWallId = 0
    /\ movingWallId = 0
    /\ movingObjectId = 0
    /\ dragOffset = [kind |-> "none", p |-> <<0, 0>>]
    /\ nextId = 1

\* generateLayout has not been called.
ImportIdle ==
    /\ form = <<>>
    /\ gpc = "idle"
    /\ base64Image = <<>>
    /\ structText = <<>>
    /\ structData = <<>>
    /\ furnText = <<>>
    /\ furnData = <<>>
    /\ layout = <<>>
    /\ generateError = <<>>

\* No request to the AI service has been made.
AiIdle ==
    /\ ImportIdle
    /\ stage = "none"
    /\ retriesArg = 0
    /\ baseDelayArg = 0
    /\ retries = 0
    /\ baseDelay = 0
    /\ invocations = 0
    /\ waits = <<>>
    /\ errors = <<>>
    /\ thrown = <<>>
    /\ result = <<>>
    /\ pendingDelay = 0
    /\ rpc = "idle"
    /\ requests = <<>>

\* The importer's nightstand pass has not run.
NestIdle ==
    /\ furnitureBuffer = <<>>
    /\ finalFurniture = <<>>

\* The 3D viewer is not shown and has no wall to build.
ViewerIdle ==
    /\ activeTab = "layout"
    /\ wallHeight = 0
    /\ wallObject = <<>>
    /\ cutout = <<>>

\* generateLayout has no call in flight.
ConcIdle ==
    /\ aiVariant = "later"
    /\ lastConstraints = <<>>
    /\ inFlight = <<>>
    /\ imageRequests = <<>>

\* No wall gesture is being followed.
TraceIdle ==
    /\ gestureBase = <<>>
    /\ gestureResult = <<>>

ExtIdle ==
    /\ NestIdle
    /\ ViewerIdle
    /\ ConcIdle
    /\ TraceIdle

\* No pointer, furniture, import or projection operation is under way.
ToolIdle ==
    /\ worldPos = <<0, 0>>
    /\ snappedPos = <<>>
    /\ item = <<>>
    /\ alignedItem = <<>>
    /\ data = <<>>
    /\ targetArea = 0
    /\ constraints = <<>>
    /\ scale = <<>>
    /\ segment = <<>>
    /\ projection = <<>>

UnitsPerMeter == 100

-----------------------------------------------------------------------------
(* Generic helpers *)

Max(a, b) == IF a >= b THEN a ELSE b
Min(a, b) == IF a <= b THEN a ELSE b
Abs(a) == IF a < 0 THEN -a ELSE a

Range(s) == {s[i] : i \in 1..Len(s)}

IndexOf(s, e) == IF \E i \in 1..Len(s) : s[i] = e
                 THEN CHOOSE i \in 1..Len(s) : s[i] = e /\ \A j \in 1..(i-1) : s[j] # e
                 ELSE 0

\* Array.prototype.sort with a comparator (stable). less[i][j] is
\* "comparator(s[i], s[j]) < 0"; element i lands after every element that is
\* less and after every equal element that preceded it.
SortBy(s, less) ==
    LET n == Len(s)
        pos(i) == Cardinality({j \in 1..n : \/ less[j][i]
                                            \/ (~less[i][j] /\ j < i)}) + 1
    IN  [k \in 1..n |-> s[CHOOSE i \in 1..n : pos(i) = k]]

-----------------------------------------------------------------------------
(* Geometry kernel: src/src/utils/geometry.ts *)

sub(p1, p2) == <<p1[1] - p2[1], p1[2] - p2[2]>>
add(p1, p2) == <<p1[1] + p2[1], p1[2] + p2[2]>>

\* distance(p1, p2)^2
distanceSq(p1, p2) ==
    (p2[1] - p1[1]) * (p2[1] - p1[1]) + (p2[2] - p1[2]) * (p2[2] - p1[2])

\* The mutant of projectPointOnSegment: the clamp of t to [0,1] is missing.
projectPointOnSegmentNoClamp(p, a, b) ==
    LET ab == sub(b, a)
        ap == sub(p, a)
        lenSq == ab[1] * ab[1] + ab[2] * ab[2]
        tn == ap[1] * ab[1] + ap[2] * ab[2]
    IN  IF lenSq = 0 THEN [pointN |-> a, tN |-> 0, den |-> 1]
        ELSE [pointN |-> <<a[1] * lenSq + ab[1] * tn, a[2] * lenSq + ab[2] * tn>>,
              tN |-> tn, den |-> lenSq]

\* projectPointOnSegment(p, a, b) = {point, t} with t = tN/den and
\* point = pointN/den (den = |ab|^2 > 0, or 1 in the degenerate case).
projectPointOnSegment(p, a, b) ==
    LET ab == sub(b, a)
        ap == sub(p, a)
        lenSq == ab[1] * ab[1] + ab[2] * ab[2]
        dot == ap[1] * ab[1] + ap[2] * ab[2]
        tn == Max(0, Min(lenSq, dot))
    IN  IF lenSq = 0 THEN [pointN |-> a, tN |-> 0, den |-> 1]
        ELSE [pointN |-> <<a[1] * lenSq + ab[1] * tn, a[2] * lenSq + ab[2] * tn>>,
              tN |-> tn, den |-> lenSq]

\* The point of a projection as a lattice point (exact for axis-aligned a-b).
PointOf(pr) == <<pr.pointN[1] \div pr.den, pr.pointN[2] \div pr.den>>

\* pointToSegmentDistance(p, a, b)^2
pointToSegmentDistanceSq(p, a, b) == distanceSq(p, PointOf(projectPointOnSegment(p, a, b)))

-----------------------------------------------------------------------------
(* Room detection: src/src/utils/roomDetection.ts *)

\* EPSILON = 0.05 = EPSILON_NUM / EPSILON_DEN, used both as a distance in
\* metres and as a bare threshold on the parameter t.
EPSILON_NUM == 5
EPSILON_DEN == 100
MAX_LOOPS == 1000

\* d < EPSILON for a distance d given by its square in lattice units
LessThanEpsilon(dSq) ==
    LET eps == (EPSILON_NUM * UnitsPerMeter) \div EPSILON_DEN
    IN  dSq < eps * eps

\* pointKey(p): the coordinates in metres times 100, rounded; the lattice
\* coordinate expressed in centimetres.
pointKey(p) == <<(p[1] * 100) \div UnitsPerMeter, (p[2] * 100) \div UnitsPerMeter>>

\* addCut(wallId, t) on the wall's cut list; t = tn/den
addCut(list, tn, den) ==
    IF \/ tn * EPSILON_DEN < EPSILON_NUM * den
       \/ tn * EPSILON_DEN > (EPSILON_DEN - EPSILON_NUM) * den
    THEN list
    ELSE IF \E k \in 1..Len(list) : 1000 * Abs(list[k] - tn) < den
         THEN list
         ELSE Append(list, tn)

\* The points checkPoint is called with for w1 = ws[i]: start and end of every
\* other wall (compared by id), in list order.
RECURSIVE CheckPoints(_, _, _)
CheckPoints(ws, i, j) ==
    IF j > Len(ws) THEN <<>>
    ELSE (IF ws[j].id = ws[i].id THEN <<>> ELSE <<ws[j].start, ws[j].end>>)
         \o CheckPoints(ws, i, j + 1)

\* checkPoint(p) for wall w, folded over the points pts[k..]
RECURSIVE CutsFrom(_, _, _, _)
CutsFrom(w, pts, k, list) ==
    IF k > Len(pts) THEN list
    ELSE LET pr == projectPointOnSegment(pts[k], w.start, w.end)
         IN  CutsFrom(w, pts, k + 1,
                 IF LessThanEpsilon(pointToSegmentDistanceSq(pts[k], w.start, w.end))
                 THEN addCut(list, pr.tN, pr.den)
                 ELSE list)

\* The segments one wall contributes: the wall itself, or its pieces between
\* consecutive sorted cuts.
WallSegments(ws, i) ==
    LET w == ws[i]
        wallVec == sub(w.end, w.start)
        den == wallVec[1] * wallVec[1] + wallVec[2] * wallVec[2]
        found == CutsFrom(w, CheckPoints(ws, i, 1), 1, <<>>)
        wallCuts == SortBy(found, [a \in 1..Len(found) |->
                                     [b \in 1..Len(found) |-> found[a] < found[b]]])
        newPoint(tn) == <<(w.start[1] * den + wallVec[1] * tn) \div den,
                          (w.start[2] * den + wallVec[2] * tn) \div den>>
        n == Len(wallCuts)
    IN  IF n = 0 THEN << [start |-> w.start, end |-> w.end] >>
        ELSE [k \in 1..(n + 1) |->
                [start |-> IF k = 1 THEN w.start ELSE newPoint(wallCuts[k - 1]),
                 end   |-> IF k = n + 1 THEN w.end ELSE newPoint(wallCuts[k])]]

RECURSIVE Segments(_, _)
Segments(ws, i) ==
    IF i > Len(ws) THEN <<>> ELSE WallSegments(ws, i) \o Segments(ws, i + 1)

\* getVertexId(p): the graph g = [vertices, adj] after the call and the index
\* of the vertex found or created (vertex ids are positions in g.vertices;
\* Map iteration order is insertion order).
getVertexId(g, p) ==
    IF \E i \in 1..Len(g.vertices) : LessThanEpsilon(distanceSq(p, g.vertices[i]))
    THEN [g |-> g,
          id |-> CHOOSE i \in 1..Len(g.vertices) :
                    /\ LessThanEpsilon(distanceSq(p, g.vertices[i]))
                    /\ \A j \in 1..(i - 1) : ~LessThanEpsilon(distanceSq(p, g.vertices[j]))]
    ELSE [g |-> [vertices |-> Append(g.vertices, p), adj |-> Append(g.adj, <<>>)],
          id |-> Len(g.vertices) + 1]

AddNeighbour(adj, u, v) ==
    IF v \in Range(adj[u]) THEN adj ELSE [adj EXCEPT ![u] = Append(@, v)]

\* segments.forEach(seg => ...) building vertices and adj
RECURSIVE BuildGraph(_, _, _)
BuildGraph(segs, k, g) ==
    IF k > Len(segs) THEN g
    ELSE LET r1 == getVertexId(g, segs[k].start)
             r2 == getVertexId(r1.g, segs[k].end)
             u == r1.id
             v == r2.id
         IN  BuildGraph(segs, k + 1,
                 IF u = v THEN r2.g
                 ELSE [r2.g EXCEPT !.adj = AddNeighbour(AddNeighbour(@, u, v), v, u)])

\* Math.atan2(d[2], d[1]) as an order: the class of the angle in (-pi, pi],
\* then the cross product within a class.
AngleClass(d) ==
    IF d[2] < 0 THEN 0
    ELSE IF d[2] = 0 /\ d[1] >= 0 THEN 1
    ELSE IF d[2] > 0 THEN 2
    ELSE 3

AngleLess(d1, d2) ==
    \/ AngleClass(d1) < AngleClass(d2)
    \/ /\ AngleClass(d1) = AngleClass(d2)
       /\ d1[1] * d2[2] - d1[2] * d2[1] > 0

\* neighbors.sort((aId, bId) => angleA - angleB) for every vertex
SortAdjacency(g) ==
    [g EXCEPT !.adj =
        [u \in 1..Len(g.adj) |->
            SortBy(g.adj[u],
                   [a \in 1..Len(g.adj[u]) |-> [b \in 1..Len(g.adj[u]) |->
                       AngleLess(sub(g.vertices[g.adj[u][a]], g.vertices[u]),
                                 sub(g.vertices[g.adj[u][b]], g.vertices[u]))]])]]

\* Mutant of TraceLoop: a trace that reaches a dead end is discarded.
RECURSIVE TraceLoopDeadEndInvalid(_, _, _, _, _, _, _)
TraceLoopDeadEndInvalid(g, u, curr, next, visited, path, loopCount) ==
    IF loopCount >= MAX_LOOPS
    THEN [visited |-> visited, path |-> path, invalid |-> FALSE,
          loopCount |-> loopCount + 1]
    ELSE LET lc == loopCount + 1
             vis == visited \cup {<<curr, next>>}
             pth == Append(path, next)
             nbrs == g.adj[next]
             idx == IndexOf(nbrs, curr)
             nn == nbrs[((idx - 1 - 1 + Len(nbrs)) % Len(nbrs)) + 1]
         IN  IF next = u
             THEN [visited |-> vis, path |-> pth, invalid |-> FALSE, loopCount |-> lc]
             ELSE IF Len(nbrs) <= 1 \/ idx = 0
             THEN [visited |-> vis, path |-> pth, invalid |-> TRUE, loopCount |-> lc]
             ELSE IF <<next, nn>> \in vis /\ <<next, nn>> # <<u, pth[2]>>
             THEN [visited |-> vis, path |-> pth, invalid |-> TRUE, loopCount |-> lc]
             ELSE TraceLoopDeadEndInvalid(g, u, next, nn, vis, pth, lc)

\* The while loop of one trace, from the state at the top of an iteration.
\* Returns [visited, path, invalid, loopCount].
RECURSIVE TraceLoop(_, _, _, _, _, _, _)
TraceLoop(g, u, curr, next, visited, path, loopCount) ==
    IF loopCount >= MAX_LOOPS
    THEN [visited |-> visited, path |-> path, invalid |-> FALSE,
          loopCount |-> loopCount + 1]
    ELSE LET lc == loopCount + 1
             vis == visited \cup {<<curr, next>>}
             pth == Append(path, next)
             nbrs == g.adj[next]
             idx == IndexOf(nbrs, curr)
             nn == nbrs[((idx - 1 - 1 + Len(nbrs)) % Len(nbrs)) + 1]
         IN  IF next = u
             THEN [visited |-> vis, path |-> pth, invalid |-> FALSE, loopCount |-> lc]
             ELSE IF Len(nbrs) = 0 \/ idx = 0
             THEN [visited |-> vis, path |-> pth, invalid |-> TRUE, loopCount |-> lc]
             ELSE IF <<next, nn>> \in vis /\ <<next, nn>> # <<u, pth[2]>>
             THEN [visited |-> vis, path |-> pth, invalid |-> TRUE, loopCount |-> lc]
             ELSE TraceLoop(g, u, next, nn, vis, pth, lc)

\* Twice the signed shoelace area of a polygon (the sum of the cross terms).
ShoelaceSum(polygon) ==
    LET n == Len(polygon)
        cross(i) == LET p1 == polygon[i]
                        p2 == polygon[(i % n) + 1]
                    IN  p1[1] * p2[2] - p2[1] * p1[2]
        RECURSIVE S(_)
        S(i) == IF i > n THEN 0 ELSE cross(i) + S(i + 1)
    IN  S(1)

\* The centroid sums cx, cy before the division by 6 * area.
CentroidSums(polygon) ==
    LET n == Len(polygon)
        cross(i) == LET p1 == polygon[i]
                        p2 == polygon[(i % n) + 1]
                    IN  p1[1] * p2[2] - p2[1] * p1[2]
        RECURSIVE SX(_)
        SX(i) == IF i > n THEN 0
                 ELSE (polygon[i][1] + polygon[(i % n) + 1][1]) * cross(i) + SX(i + 1)
        RECURSIVE SY(_)
        SY(i) == IF i > n THEN 0
                 ELSE (polygon[i][2] + polygon[(i % n) + 1][2]) * cross(i) + SY(i + 1)
    IN  <<SX(1), SY(1)>>

PointLess(a, b) == a[1] < b[1] \/ (a[1] = b[1] /\ a[2] < b[2])

\* The mutant of RoomId: the points are not sorted before they are joined.
RoomIdUnsorted(polygon) == [k \in 1..Len(polygon) |-> pointKey(polygon[k])]

\* roomId: the rounded coordinates of the polygon's points, sorted by x then y
RoomId(polygon) ==
    LET n == Len(polygon)
        sortedPoints == SortBy(polygon, [a \in 1..n |-> [b \in 1..n |->
                                            PointLess(polygon[a], polygon[b])]])
    IN  [k \in 1..Len(sortedPoints) |-> pointKey(sortedPoints[k])]

\* Mutants of AreaAccepted: the test is made on Math.abs(area); the test is
\* area >= 0.
AreaAcceptedAbs(shoelaceSum) == Abs(shoelaceSum) * 10 > 2 * UnitsPerMeter * UnitsPerMeter
AreaAcceptedNonNegative(shoelaceSum) == shoelaceSum >= 0

\* if (area > 0.1): area = sum / 2 in square metres
AreaAccepted(shoelaceSum) == shoelaceSum * 10 > 2 * UnitsPerMeter * UnitsPerMeter

\* The Room pushed for a closed trace. area2 is twice the area; the centroid
\* is centroidN / centroidDen with centroidDen = 6 * area = 3 * area2.
MakeRoom(polygon) ==
    LET sum == ShoelaceSum(polygon)
    IN  [id |-> RoomId(polygon),
         path |-> polygon,
         area2 |-> Abs(sum),
         centroidN |-> CentroidSums(polygon),
         centroidDen |-> 3 * sum]

\* One pass of the inner for loop: the trace that starts with edge u -> v.
TraceFrom(g, u, v, st) ==
    IF <<u, v>> \in st.visited THEN st
    ELSE LET tr == TraceLoop(g, u, u, v, st.visited, <<u>>, 0)
             polygon == [k \in 1..(Len(tr.path) - 1) |-> g.vertices[tr.path[k]]]
         IN  IF tr.invalid \/ tr.loopCount >= MAX_LOOPS \/ Len(tr.path) < 3
             THEN [st EXCEPT !.visited = tr.visited]
             ELSE IF AreaAccepted(ShoelaceSum(polygon))
                  THEN [visited |-> tr.visited, rooms |-> Append(st.rooms, MakeRoom(polygon))]
                  ELSE [st EXCEPT !.visited = tr.visited]

RECURSIVE FindCycles(_, _, _, _)
FindCycles(g, u, k, st) ==
    IF u > Len(g.vertices) THEN st
    ELSE IF k > Len(g.adj[u]) THEN FindCycles(g, u + 1, 1, st)
    ELSE FindCycles(g, u, k + 1, TraceFrom(g, u, g.adj[u][k], st))

detectRooms(ws) ==
    LET g == SortAdjacency(BuildGraph(Segments(ws, 1), 1, [vertices |-> <<>>, adj |-> <<>>]))
    IN  FindCycles(g, 1, 1, [visited |-> {}, rooms |-> <<>>]).rooms

-----------------------------------------------------------------------------
(* Walls *)

Wall(id, start, end, thickness, isVirtual) ==
    [id |-> id, start |-> start, end |-> end, thickness |-> thickness,
     isVirtual |-> isVirtual]

\* A list of segments as walls with ids 1..n (ids are unique in the editor).
AsWalls(segs) ==
    [k \in 1..Len(segs) |-> Wall(k, segs[k][1], segs[k][2], 20, FALSE)]

\* The importer has not run.
NormIdle ==
    /\ candidates = <<>>
    /\ footprintWalls = <<>>
    /\ finalWalls = <<>>
    /\ renormalized = <<>>

-----------------------------------------------------------------------------
(* Closed rectangle scenario: detectRooms on four walls with shared corners *)

RectOrigins == {<<0, 0>>, <<-200, 100>>}
RectWidths  == {3, 6, 30, 400}
RectHeights == {6, 30, 300}

\* The sides of the rectangle at o with width w and height h, walked around.
RectSides(o, w, h) ==
    << <<o, <<o[1] + w, o[2]>>>>,
       <<<<o[1] + w, o[2]>>, <<o[1] + w, o[2] + h>>>>,
       <<<<o[1] + w, o[2] + h>>, <<o[1], o[2] + h>>>>,
       <<<<o[1], o[2] + h>>, o>> >>

Flip(seg, f) == IF f THEN <<seg[2], seg[1]>> ELSE seg

RectWallLists ==
    { AsWalls([k \in 1..4 |-> Flip(RectSides(o, w, h)[perm[k]], flip[k])]) :
        o \in RectOrigins, w \in RectWidths, h \in RectHeights,
        perm \in {f \in [1..4 -> 1..4] : \A i, j \in 1..4 : i # j => f[i] # f[j]},
        flip \in [1..4 -> BOOLEAN] }

InitRect ==
    /\ walls \in RectWallLists
    /\ rooms = <<>>
    /\ viewerRooms = <<>>
    /\ NormIdle
    /\ ToolIdle
    /\ pc = "loaded"
    /\ EditorIdle
    /\ AiIdle
    /\ ExtIdle

\* The render that follows: rooms = useMemo(() => detectRooms(state.walls))
Detect ==
    /\ pc = "loaded"
    /\ rooms' = detectRooms(walls)
    /\ pc' = "rendered"
    /\ UNCHANGED editorVars
    /\ UNCHANGED aiVars
    /\ UNCHANGED extVars
    /\ UNCHANGED <<walls, viewerRooms>>
    /\ UNCHANGED normVars
    /\ UNCHANGED toolVars

NextRect == Detect

SpecRect == InitRect /\ [][NextRect]_vars

\* Bounding box of the wall list
WallPoints == UNION {{walls[k].start, walls[k].end} : k \in 1..Len(walls)}
MinX == CHOOSE x \in {p[1] : p \in WallPoints} : \A p \in WallPoints : x <= p[1]
MaxX == CHOOSE x \in {p[1] : p \in WallPoints} : \A p \in WallPoints : x >= p[1]
MinY == CHOOSE y \in {p[2] : p \in WallPoints} : \A p \in WallPoints : y <= p[2]
MaxY == CHOOSE y \in {p[2] : p \in WallPoints} : \A p \in WallPoints : y >= p[2]

\* Exactly one room, of area W*H, with its centroid at the centre.
OneRectRoom ==
    /\ Len(rooms) = 1
    /\ rooms[1].area2 = 2 * (MaxX - MinX) * (MaxY - MinY)
    /\ 2 * rooms[1].centroidN[1] = (MinX + MaxX) * rooms[1].centroidDen
    /\ 2 * rooms[1].centroidN[2] = (MinY + MaxY) * rooms[1].centroidDen

\* The rectangle is no sliver: both sides longer than EPSILON (its corners
\* are distinct graph vertices) and W*H > 0.1 square metres.
RectDetectable ==
    /\ ~LessThanEpsilon((MaxX - MinX) * (MaxX - MinX))
    /\ ~LessThanEpsilon((MaxY - MinY) * (MaxY - MinY))
    /\ AreaAccepted(2 * (MaxX - MinX) * (MaxY - MinY))

\* C1 as stated: four walls forming any axis-aligned W x H rectangle with
\* shared corners, in any list order and wall direction, give exactly one
\* room of area W*H whose centroid is the rectangle's centre.
C1_AnyRectangleOneRoom == pc = "rendered" => OneRectRoom

\* C1 amended: the same, for rectangles whose sides are at least 0.05 m and
\* whose area W*H exceeds 0.1 square metres (the 4 m x 3 m one included).
C1_RectangleOneRoom == (pc = "rendered" /\ RectDetectable) => OneRectRoom

\* The 4 m x 3 m rectangle, its first wall reversed, detected with area 12.
C1_Witness ==
    /\ pc = "rendered"
    /\ MaxX - MinX = 4 * UnitsPerMeter
    /\ MaxY - MinY = 3 * UnitsPerMeter
    /\ walls[1].start[1] > walls[1].end[1]
    /\ Len(rooms) = 1
    /\ rooms[1].area2 = 2 * 12 * UnitsPerMeter * UnitsPerMeter

-----------------------------------------------------------------------------
(* Room detection on arbitrary wall lists *)

MaxWalls == 5

\* Segments the wall lists are drawn from: a 1 m square, a divider and a stub
\* that meet other walls mid-span, a wall 3 cm off a side, a zero-length wall.
WallPool ==
    { <<<<0, 0>>, <<100, 0>>>>,
      <<<<100, 0>>, <<100, 100>>>>,
      <<<<100, 100>>, <<0, 100>>>>,
      <<<<0, 100>>, <<0, 0>>>>,
      <<<<50, 0>>, <<50, 100>>>>,
      <<<<0, 50>>, <<40, 50>>>>,
      <<<<103, 100>>, <<103, 0>>>>,
      <<<<0, 0>>, <<0, 0>>>> }

\* Lists of at most n distinct pool segments, in every order.
RECURSIVE ListsOver(_, _)
ListsOver(pool, n) ==
    IF n = 0 THEN {<<>>}
    ELSE LET shorter == ListsOver(pool, n - 1)
         IN  shorter \cup {Append(l, e) : l \in {x \in shorter : Len(x) = n - 1},
                                          e \in pool}

DistinctListsOver(pool, n) ==
    {x \in ListsOver(pool, n) : \A i, j \in 1..Len(x) : i # j => x[i] # x[j]}

WallLists == {AsWalls(l) : l \in DistinctListsOver(WallPool, MaxWalls)}

InitRooms ==
    /\ walls \in WallLists
    /\ rooms = <<>>
    /\ viewerRooms = <<>>
    /\ NormIdle
    /\ ToolIdle
    /\ pc = "loaded"
    /\ EditorIdle
    /\ AiIdle
    /\ ExtIdle

\* The 3D viewer renders the same wall list and runs detectRooms again.
DetectViewer ==
    /\ pc = "rendered"
    /\ viewerRooms' = detectRooms(walls)
    /\ pc' = "viewed"
    /\ UNCHANGED editorVars
    /\ UNCHANGED aiVars
    /\ UNCHANGED extVars
    /\ UNCHANGED <<walls, rooms>>
    /\ UNCHANGED normVars
    /\ UNCHANGED toolVars

NextRooms == Detect \/ DetectViewer

SpecRooms == InitRooms /\ [][NextRooms]_vars

\* The multiset of a sequence's elements, as a count per element.
Count(s, e) == Cardinality({i \in 1..Len(s) : s[i] = e})

RoundedPath(room) == [k \in 1..Len(room.path) |-> pointKey(room.path[k])]

\* The elements of a set of points, each once, sorted by x then y.
SortedPoints(S) ==
    CHOOSE s \in [1..Cardinality(S) -> S] :
        /\ Range(s) = S
        /\ \A i \in 1..(Len(s) - 1) : PointLess(s[i], s[i + 1])

C6_RoomAreaPositive ==
    pc # "loaded" =>
        \A k \in 1..Len(rooms) :
            /\ rooms[k].area2 * 10 > 2 * UnitsPerMeter * UnitsPerMeter
            /\ Len(rooms[k].path) >= 3
            /\ rooms[k].area2 = Abs(ShoelaceSum(rooms[k].path))

\* Two rooms detected, one on each side of a divider met mid-span.
C6_Witness ==
    /\ pc = "rendered"
    /\ Len(rooms) = 2
    /\ \A k \in 1..2 : rooms[k].area2 = UnitsPerMeter * UnitsPerMeter

-----------------------------------------------------------------------------
(* Normalization pass of AIService.convertVisionToWalls:                    *)
(* src/src/utils/geometry.ts lines 1225-1323                                *)

\* Thresholds of the pass, in lattice units (centimetres).
SNAP_DIST == 30
FOOTPRINT_SNAP_DIST == 60
ON_WALL_DIST == 5
DEDUP_DIST == 1
EXTERNAL_THICKNESS == 20
INTERNAL_THICKNESS == 10
EXTERIOR_THRESHOLD == 40

Within(p, q, d) == distanceSq(p, q) < d * d

\* getSegmentIntersection(a, b, c, d): <<point>> when the segments meet in
\* one point within their bounds, <<>> (null) when they are parallel or do
\* not meet.
getSegmentIntersection(a, b, c, d) ==
    LET r == sub(b, a)
        q == sub(d, c)
        det == r[1] * q[2] - r[2] * q[1]
        ac == sub(c, a)
        tn == ac[1] * q[2] - ac[2] * q[1]
        un == ac[1] * r[2] - ac[2] * r[1]
        inside(n) == IF det > 0 THEN 0 <= n /\ n <= det ELSE det <= n /\ n <= 0
    IN  IF det = 0 THEN <<>>
        ELSE IF inside(tn) /\ inside(un)
             THEN << <<(a[1] * det + r[1] * tn) \div det,
                       (a[2] * det + r[2] * tn) \div det>> >>
             ELSE <<>>

\* The T-junction seed of endpoint e on segment a-b, if any.
ProjectionSeed(e, a, b) ==
    LET pr == projectPointOnSegment(e, a, b)
    IN  IF pr.tN > 0 /\ pr.tN < pr.den /\ Within(e, PointOf(pr), SNAP_DIST)
        THEN <<PointOf(pr)>>
        ELSE <<>>

\* The seeds one pair (w1, w2) of candidates adds.
PairSeeds(w1, w2) ==
    getSegmentIntersection(w1.start, w1.end, w2.start, w2.end)
    \o ProjectionSeed(w1.start, w2.start, w2.end)
    \o ProjectionSeed(w1.end, w2.start, w2.end)
    \o ProjectionSeed(w2.start, w1.start, w1.end)
    \o ProjectionSeed(w2.end, w1.start, w1.end)

RECURSIVE EndpointSeeds(_, _)
EndpointSeeds(cs, i) ==
    IF i > Len(cs) THEN <<>>
    ELSE <<cs[i].start, cs[i].end>> \o EndpointSeeds(cs, i + 1)

RECURSIVE AllPairSeeds(_, _, _)
AllPairSeeds(cs, i, j) ==
    IF i > Len(cs) THEN <<>>
    ELSE IF j > Len(cs) THEN AllPairSeeds(cs, i + 1, i + 2)
    ELSE PairSeeds(cs[i], cs[j]) \o AllPairSeeds(cs, i, j + 1)

\* 1. Collect all vertex seeds
CollectSeeds(cs) == EndpointSeeds(cs, 1) \o AllPairSeeds(cs, 1, 2)

\* The seed moved onto the first footprint wall it is near.
SnapToFootprint(seed, fws) ==
    IF \E k \in 1..Len(fws) :
          Within(seed, PointOf(projectPointOnSegment(seed, fws[k].start, fws[k].end)),
                 FOOTPRINT_SNAP_DIST)
    THEN LET k == CHOOSE k \in 1..Len(fws) :
                    /\ Within(seed, PointOf(projectPointOnSegment(seed, fws[k].start, fws[k].end)),
                              FOOTPRINT_SNAP_DIST)
                    /\ \A m \in 1..(k - 1) :
                          ~Within(seed, PointOf(projectPointOnSegment(seed, fws[m].start, fws[m].end)),
                                  FOOTPRINT_SNAP_DIST)
         IN  PointOf(projectPointOnSegment(seed, fws[k].start, fws[k].end))
    ELSE seed

\* 2. Consolidate into master vertices
RECURSIVE Cluster(_, _, _, _)
Cluster(seeds, k, fws, masterVertices) ==
    IF k > Len(seeds) THEN masterVertices
    ELSE LET snapped == SnapToFootprint(seeds[k], fws)
             found == \E m \in 1..Len(masterVertices) :
                         Within(snapped, masterVertices[m], SNAP_DIST)
         IN  Cluster(seeds, k + 1, fws,
                     IF found THEN masterVertices ELSE Append(masterVertices, snapped))

\* The master vertices lying on base, with their t, in master order.
RECURSIVE WallPointsOf(_, _, _)
WallPointsOf(base, masterVertices, k) ==
    IF k > Len(masterVertices) THEN <<>>
    ELSE LET mv == masterVertices[k]
             pr == projectPointOnSegment(mv, base.start, base.end)
         IN  (IF Within(mv, PointOf(pr), ON_WALL_DIST)
              THEN << [p |-> mv, tN |-> pr.tN, den |-> pr.den] >>
              ELSE <<>>)
             \o WallPointsOf(base, masterVertices, k + 1)

\* The pieces of one base wall between consecutive wall points
RECURSIVE PiecesBetween(_, _, _)
PiecesBetween(base, wp, i) ==
    IF i > Len(wp) - 1 THEN <<>>
    ELSE (IF 1000 * (wp[i + 1].tN - wp[i].tN) < wp[i].den
          THEN <<>>
          ELSE << [base EXCEPT !.start = wp[i].p, !.end = wp[i + 1].p] >>)
         \o PiecesBetween(base, wp, i + 1)

\* Mutant of PiecesOf: one piece from the first to the last wall point.
PiecesOfUnsplit(base, masterVertices) ==
    LET found == WallPointsOf(base, masterVertices, 1)
        wallPoints == SortBy(found, [a \in 1..Len(found) |->
                                       [b \in 1..Len(found) |-> found[a].tN < found[b].tN]])
    IN  IF Len(wallPoints) < 2 THEN <<>>
        ELSE PiecesBetween(base, <<wallPoints[1], wallPoints[Len(wallPoints)]>>, 1)

PiecesOf(base, masterVertices) ==
    LET found == WallPointsOf(base, masterVertices, 1)
        wallPoints == SortBy(found, [a \in 1..Len(found) |->
                                       [b \in 1..Len(found) |-> found[a].tN < found[b].tN]])
    IN  PiecesBetween(base, wallPoints, 1)

\* 3. Reconstruct walls
RECURSIVE Reconstruct(_, _, _)
Reconstruct(cs, i, masterVertices) ==
    IF i > Len(cs) THEN <<>>
    ELSE PiecesOf(cs[i], masterVertices) \o Reconstruct(cs, i + 1, masterVertices)

SameSpan(p, f) ==
    \/ Within(p.start, f.start, DEDUP_DIST) /\ Within(p.end, f.end, DEDUP_DIST)
    \/ Within(p.start, f.end, DEDUP_DIST) /\ Within(p.end, f.start, DEDUP_DIST)

\* Mutant of AddFinal: the first wall of a duplicate pair always stays.
AddFinalKeepFirst(final, p) ==
    IF \E k \in 1..Len(final) : SameSpan(p, final[k]) THEN final ELSE Append(final, p)

\* One step of the final deduplication: piece p against finalWalls.
AddFinal(final, p) ==
    IF \E k \in 1..Len(final) : SameSpan(p, final[k])
    THEN LET k == CHOOSE k \in 1..Len(final) :
                    SameSpan(p, final[k]) /\ \A m \in 1..(k - 1) : ~SameSpan(p, final[m])
         IN  IF ~p.isVirtual /\ final[k].isVirtual
             THEN [final EXCEPT ![k] = p]
             ELSE final
    ELSE Append(final, p)

\* 4. Final deduplication
RECURSIVE Deduplicate(_, _, _)
Deduplicate(pieces, i, final) ==
    IF i > Len(pieces) THEN final
    ELSE Deduplicate(pieces, i + 1, AddFinal(final, pieces[i]))

\* Every wall gets a fresh id (uuidv4): here its position in the list.
Renumber(ws) == [k \in 1..Len(ws) |-> [ws[k] EXCEPT !.id = k]]

NormalizationPass(cs, fws) ==
    LET masterVertices == Cluster(CollectSeeds(cs), 1, fws, <<>>)
    IN  Renumber(Deduplicate(Reconstruct(cs, 1, masterVertices), 1, <<>>))

-----------------------------------------------------------------------------
(* The pass on candidate lists *)

MaxRoomEdges == 3

\* The footprint polygon, already scaled: none, or a 6 m x 4 m rectangle.
FootprintOptions ==
    { <<>>, << <<0, 0>>, <<600, 0>>, <<600, 400>>, <<0, 400>> >> }

\* Room edges, already scaled: [start, end, isVirtual].
Edge(start, end, isVirtual) == [start |-> start, end |-> end, isVirtual |-> isVirtual]

RoomEdgePool ==
    { Edge(<<0, 0>>, <<600, 0>>, FALSE),
      Edge(<<600, 0>>, <<0, 0>>, TRUE),
      Edge(<<300, 0>>, <<300, 300>>, FALSE),
      Edge(<<300, 300>>, <<300, 0>>, FALSE),
      Edge(<<300, 0>>, <<300, 20>>, FALSE),
      Edge(<<0, 100>>, <<20, 100>>, FALSE),
      Edge(<<0, 100>>, <<20, 100>>, TRUE),
      Edge(<<300, 20>>, <<300, 300>>, FALSE),
      Edge(<<320, -100>>, <<320, 100>>, FALSE),
      Edge(<<300, 10>>, <<300, 25>>, FALSE),
      Edge(<<100, 200>>, <<100, 200>>, FALSE) }

\* 2. Generate footprint walls: one candidate per polygon edge.
FootprintCandidates(fp) ==
    IF Len(fp) > 2
    THEN [i \in 1..Len(fp) |->
            Wall(0, fp[i], fp[(i % Len(fp)) + 1], EXTERNAL_THICKNESS, FALSE)]
    ELSE <<>>

\* isExterior: the edge's midpoint is within THRESHOLD of a footprint wall
\* (coordinates doubled so that the midpoint is a lattice point).
IsExterior(e, fws) ==
    \E k \in 1..Len(fws) :
        pointToSegmentDistanceSq(add(e.start, e.end),
                                 <<2 * fws[k].start[1], 2 * fws[k].start[2]>>,
                                 <<2 * fws[k].end[1], 2 * fws[k].end[2]>>)
            < (2 * EXTERIOR_THRESHOLD) * (2 * EXTERIOR_THRESHOLD)

\* 3. Generate room walls: edges shorter than 0.05 and exterior edges are
\* skipped; a virtual edge is given thickness 0.05.
RECURSIVE RoomCandidates(_, _, _)
RoomCandidates(edges, i, fws) ==
    IF i > Len(edges) THEN <<>>
    ELSE (IF Within(edges[i].start, edges[i].end, ON_WALL_DIST) \/ IsExterior(edges[i], fws)
          THEN <<>>
          ELSE << Wall(0, edges[i].start, edges[i].end,
                       IF edges[i].isVirtual THEN 5 ELSE INTERNAL_THICKNESS,
                       edges[i].isVirtual) >>)
         \o RoomCandidates(edges, i + 1, fws)

InitNormalize ==
    /\ \E fp \in FootprintOptions, edges \in DistinctListsOver(RoomEdgePool, MaxRoomEdges) :
          /\ footprintWalls = FootprintCandidates(fp)
          /\ candidates = Renumber(FootprintCandidates(fp)
                                   \o RoomCandidates(edges, 1, FootprintCandidates(fp)))
    /\ finalWalls = <<>>
    /\ renormalized = <<>>
    /\ walls = <<>>
    /\ rooms = <<>>
    /\ viewerRooms = <<>>
    /\ ToolIdle
    /\ pc = "candidates"
    /\ EditorIdle
    /\ AiIdle
    /\ ExtIdle

Normalize ==
    /\ pc = "candidates"
    /\ finalWalls' = NormalizationPass(candidates, footprintWalls)
    /\ pc' = "normalized"
    /\ UNCHANGED editorVars
    /\ UNCHANGED aiVars
    /\ UNCHANGED extVars
    /\ UNCHANGED <<candidates, footprintWalls, renormalized>>
    /\ UNCHANGED roomVars
    /\ UNCHANGED toolVars

\* The pass run again with its own output as the candidates.
Renormalize ==
    /\ pc = "normalized"
    /\ renormalized' = NormalizationPass(finalWalls, footprintWalls)
    /\ pc' = "renormalized"
    /\ UNCHANGED editorVars
    /\ UNCHANGED aiVars
    /\ UNCHANGED extVars
    /\ UNCHANGED <<candidates, footprintWalls, finalWalls>>
    /\ UNCHANGED roomVars
    /\ UNCHANGED toolVars

NextNormalize == Normalize \/ Renormalize

SpecNormalize == InitNormalize /\ [][NextNormalize]_vars

Length2(w) == distanceSq(w.start, w.end)

Spans(ws) == {{ws[k].start, ws[k].end} : k \in 1..Len(ws)}

\* Twice the midpoint of a wall
Mid2(w) == add(w.start, w.end)

\* c is axis-aligned and 6 m long; d is perpendicular to it and has an
\* endpoint exactly at its midpoint.
TJunctionPair(c, d) ==
    /\ Length2(c) = (6 * UnitsPerMeter) * (6 * UnitsPerMeter)
    /\ LET u == sub(c.end, c.start)
           v == sub(d.end, d.start)
       IN  u[1] * v[1] + u[2] * v[2] = 0 /\ v # <<0, 0>>
    /\ \E e \in {d.start, d.end} : <<2 * e[1], 2 * e[2]>> = Mid2(c)

TJunctionCase ==
    /\ pc = "normalized"
    /\ footprintWalls = <<>>
    /\ Len(candidates) = 2
    /\ \E i, j \in 1..2 : TJunctionPair(candidates[i], candidates[j])

\* The output is the long wall in two 3 m pieces and the perpendicular wall,
\* all three ending at the midpoint.
TJunctionSplit ==
    \E i, j \in 1..2 :
        /\ TJunctionPair(candidates[i], candidates[j])
        /\ LET c == candidates[i]
               d == candidates[j]
               m == CHOOSE e \in {d.start, d.end} : <<2 * e[1], 2 * e[2]>> = Mid2(c)
           IN  /\ Len(finalWalls) = 3
               /\ Spans(finalWalls) = {{c.start, m}, {m, c.end}, {d.start, d.end}}
               /\ \A k \in 1..3 : m \in {finalWalls[k].start, finalWalls[k].end}
               /\ Cardinality({k \in 1..3 :
                      Length2(finalWalls[k]) = (3 * UnitsPerMeter) * (3 * UnitsPerMeter)
                      /\ {finalWalls[k].start, finalWalls[k].end} \subseteq
                             {c.start, m, c.end}}) = 2

LongerThanSnap(w) == ~Within(w.start, w.end, SNAP_DIST)

\* C2 as stated: a 6 m candidate and any perpendicular candidate with an
\* endpoint at its midpoint normalize to two 3 m pieces plus the
\* perpendicular wall, all sharing the midpoint.
C2_TJunctionAnyWall == TJunctionCase => TJunctionSplit

\* C2 amended: the same, when the perpendicular wall is at least 0.30 m long.
C2_TJunctionSplit ==
    (TJunctionCase /\ \A k \in 1..2 : LongerThanSnap(candidates[k])) => TJunctionSplit

\* The 6 m wall listed second, split at the foot of a 3 m perpendicular wall.
C2_Witness ==
    /\ TJunctionCase
    /\ TJunctionPair(candidates[2], candidates[1])
    /\ Len(finalWalls) = 3

CoincidentPairCase ==
    /\ pc = "normalized"
    /\ Len(candidates) = 2
    /\ SameSpan(candidates[1], candidates[2])
    /\ candidates[1].isVirtual # candidates[2].isVirtual

OnlyPhysicalKept ==
    /\ Len(finalWalls) = 1
    /\ ~finalWalls[1].isVirtual
    /\ finalWalls[1].thickness = INTERNAL_THICKNESS
    /\ SameSpan(finalWalls[1], candidates[1])

SameWallSet(ws1, ws2) == Len(ws1) = Len(ws2) /\ Spans(ws1) = Spans(ws2)

\* C4: the pass applied to its own output returns the same wall set (same
\* endpoint pairs, same count).
C4_Idempotent == pc = "renormalized" => SameWallSet(renormalized, finalWalls)

-----------------------------------------------------------------------------
(* projectPointOnSegment on a grid of points *)

GridMax == 2

GridPoints == {<<x, y>> : x \in (-GridMax)..GridMax, y \in (-GridMax)..GridMax}

RoomsIdle ==
    /\ walls = <<>>
    /\ rooms = <<>>
    /\ viewerRooms = <<>>

InitProject ==
    /\ worldPos \in GridPoints
    /\ segment \in [a : GridPoints, b : GridPoints]
    /\ projection = <<>>
    /\ snappedPos = <<>>
    /\ item = <<>>
    /\ alignedItem = <<>>
    /\ data = <<>>
    /\ targetArea = 0
    /\ constraints = <<>>
    /\ scale = <<>>
    /\ RoomsIdle
    /\ NormIdle
    /\ pc = "ready"
    /\ EditorIdle
    /\ AiIdle
    /\ ExtIdle

Project ==
    /\ pc = "ready"
    /\ projection' = projectPointOnSegment(worldPos, segment.a, segment.b)
    /\ pc' = "projected"
    /\ UNCHANGED editorVars
    /\ UNCHANGED aiVars
    /\ UNCHANGED extVars
    /\ UNCHANGED <<worldPos, snappedPos, item, alignedItem, data, targetArea,
                   constraints, scale, segment>>
    /\ UNCHANGED roomVars
    /\ UNCHANGED normVars

NextProject == Project

SpecProject == InitProject /\ [][NextProject]_vars

\* The unclamped parameter numerator (p - a).(b - a) and |b - a|^2
Dot(u, v) == u[1] * v[1] + u[2] * v[2]

\* C10: for a # b, t is in [0,1], the point is a + t*(b - a), it lies on the
\* segment, and it is an endpoint when the unclamped projection falls
\* outside; for a = b the point is a and t is 0.
C10_ProjectionClamped ==
    pc = "projected" =>
        LET a == segment.a
            b == segment.b
            ab == sub(b, a)
            raw == Dot(sub(worldPos, a), ab)
            pr == projection
        IN  IF a = b
            THEN pr.pointN = a /\ pr.tN = 0 /\ pr.den = 1
            ELSE /\ pr.den > 0
                 /\ 0 <= pr.tN /\ pr.tN <= pr.den
                 /\ pr.pointN = <<a[1] * pr.den + pr.tN * ab[1],
                                  a[2] * pr.den + pr.tN * ab[2]>>
                 /\ \A k \in 1..2 :
                       /\ Min(a[k], b[k]) * pr.den <= pr.pointN[k]
                       /\ pr.pointN[k] <= Max(a[k], b[k]) * pr.den
                 /\ raw <= 0 => (pr.tN = 0 /\ pr.pointN = <<a[1] * pr.den, a[2] * pr.den>>)
                 /\ raw >= Dot(ab, ab) =>
                       (pr.tN = pr.den /\ pr.pointN = <<b[1] * pr.den, b[2] * pr.den>>)
                 /\ (0 < raw /\ raw < Dot(ab, ab)) => pr.tN * Dot(ab, ab) = raw * pr.den

\* A point beyond the b end of a proper segment was projected on b.
C10_Witness ==
    /\ pc = "projected"
    /\ segment.a # segment.b
    /\ Dot(sub(worldPos, segment.a), sub(segment.b, segment.a))
          > Dot(sub(segment.b, segment.a), sub(segment.b, segment.a))
    /\ projection.tN = projection.den
    /\ projection.pointN = <<segment.b[1] * projection.den, segment.b[2] * projection.den>>

-----------------------------------------------------------------------------
(* Canvas snapping: src/src/hooks/useCanvas.ts, snapToVertex *)

\* threshold: number = 0.05
DEFAULT_THRESHOLD == 5
\* the 5 cm grid of Math.round(p.x / 0.05) * 0.05
GRID_STEP == 5

\* 1. Snap to vertices: the first wall, in list order, with its start (then
\* its end) closer than the threshold.  <<>> when there is none.
RECURSIVE VertexSnap(_, _, _, _)
VertexSnap(p, threshold, ws, i) ==
    IF i > Len(ws) THEN <<>>
    ELSE IF distanceSq(p, ws[i].start) < threshold * threshold THEN <<ws[i].start>>
    ELSE IF distanceSq(p, ws[i].end) < threshold * threshold THEN <<ws[i].end>>
    ELSE VertexSnap(p, threshold, ws, i + 1)

\* 2. Snap to wall body: the projection on the first wall closer than the
\* threshold.
RECURSIVE WallBodySnap(_, _, _, _)
WallBodySnap(p, threshold, ws, i) ==
    IF i > Len(ws) THEN <<>>
    ELSE IF pointToSegmentDistanceSq(p, ws[i].start, ws[i].end) < threshold * threshold
         THEN <<PointOf(projectPointOnSegment(p, ws[i].start, ws[i].end))>>
    ELSE WallBodySnap(p, threshold, ws, i + 1)

\* Math.round(v / 0.05) * 0.05 for v in centimetres (round half up)
RoundToGrid(v) == ((2 * v + GRID_STEP) \div (2 * GRID_STEP)) * GRID_STEP

\* points: start and end of all walls, in order
RECURSIVE InterestingPoints(_, _)
InterestingPoints(ws, i) ==
    IF i > Len(ws) THEN <<>>
    ELSE <<ws[i].start, ws[i].end>> \o InterestingPoints(ws, i + 1)

\* 4. Alignment snap on coordinate k: the coordinate of the point whose
\* coordinate is nearest to p's, if nearer than the threshold, else the grid
\* value.  best is <<>> for Infinity, else <<distance>>.
RECURSIVE AlignmentSnap(_, _, _, _, _, _, _)
AlignmentSnap(p, k, threshold, points, i, snapped, best) ==
    IF i > Len(points) THEN snapped
    ELSE LET d == Abs(p[k] - points[i][k])
         IN  IF d < threshold /\ (best = <<>> \/ d < best[1])
             THEN AlignmentSnap(p, k, threshold, points, i + 1, points[i][k], <<d>>)
             ELSE AlignmentSnap(p, k, threshold, points, i + 1, snapped, best)

GridAndAlignmentSnap(p, threshold, ws) ==
    <<AlignmentSnap(p, 1, threshold, InterestingPoints(ws, 1), 1, RoundToGrid(p[1]), <<>>),
      AlignmentSnap(p, 2, threshold, InterestingPoints(ws, 1), 1, RoundToGrid(p[2]), <<>>)>>

\* Mutant of snapToVertex: the wall body is tried before the vertices.
snapToVertexBodyFirst(p, threshold, ws) ==
    IF WallBodySnap(p, threshold, ws, 1) # <<>> THEN WallBodySnap(p, threshold, ws, 1)[1]
    ELSE IF VertexSnap(p, threshold, ws, 1) # <<>> THEN VertexSnap(p, threshold, ws, 1)[1]
    ELSE GridAndAlignmentSnap(p, threshold, ws)

snapToVertex(p, threshold, ws) ==
    IF VertexSnap(p, threshold, ws, 1) # <<>> THEN VertexSnap(p, threshold, ws, 1)[1]
    ELSE IF WallBodySnap(p, threshold, ws, 1) # <<>> THEN WallBodySnap(p, threshold, ws, 1)[1]
    ELSE GridAndAlignmentSnap(p, threshold, ws)

MaxSnapWalls == 3

\* A long wall, a wall starting 3 cm off its body, a wall starting 2 cm
\* past its end, and a wall of zero length left by a click.
SnapWallPool ==
    { <<<<0, 0>>, <<100, 0>>>>,
      <<<<50, 3>>, <<50, 80>>>>,
      <<<<102, 0>>, <<102, 50>>>>,
      <<<<20, 4>>, <<20, 4>>>> }

PointerXs == {0, 3, 18, 21, 50, 52, 55, 99, 101, 104}
PointerYs == {-6, 0, 2, 3, 4, 7}

InitSnap ==
    /\ walls \in {AsWalls(l) : l \in DistinctListsOver(SnapWallPool, MaxSnapWalls)}
    /\ worldPos \in {<<x, y>> : x \in PointerXs, y \in PointerYs}
    /\ snappedPos = <<>>
    /\ item = <<>>
    /\ alignedItem = <<>>
    /\ data = <<>>
    /\ targetArea = 0
    /\ constraints = <<>>
    /\ scale = <<>>
    /\ segment = <<>>
    /\ projection = <<>>
    /\ rooms = <<>>
    /\ viewerRooms = <<>>
    /\ NormIdle
    /\ pc = "pointing"
    /\ EditorIdle
    /\ AiIdle
    /\ ExtIdle

\* const snappedPos = snapToVertex(worldPos)
Snap ==
    /\ pc = "pointing"
    /\ snappedPos' = <<snapToVertex(worldPos, DEFAULT_THRESHOLD, walls)>>
    /\ pc' = "snapped"
    /\ UNCHANGED editorVars
    /\ UNCHANGED aiVars
    /\ UNCHANGED extVars
    /\ UNCHANGED <<worldPos, item, alignedItem, data, targetArea, constraints,
                   scale, segment, projection>>
    /\ UNCHANGED roomVars
    /\ UNCHANGED normVars

NextSnap == Snap

SpecSnap == InitSnap /\ [][NextSnap]_vars

WallEndpoints == UNION {{walls[i].start, walls[i].end} : i \in 1..Len(walls)}

NearVertices == {v \in WallEndpoints :
                    distanceSq(worldPos, v) < DEFAULT_THRESHOLD * DEFAULT_THRESHOLD}

\* C7: when the pointer is strictly within the threshold of some wall's
\* start or end, the result is a wall endpoint within the threshold of the
\* pointer, whatever grid point or wall body is closer.
C7_VertexPriority ==
    (pc = "snapped" /\ NearVertices # {}) => snappedPos[1] \in NearVertices

\* The pointer lies on the body of one wall, 3 cm from the start of
\* another, and is itself a grid point: the result is that start.
C7_Witness ==
    /\ pc = "snapped"
    /\ worldPos = <<RoundToGrid(worldPos[1]), RoundToGrid(worldPos[2])>>
    /\ \E i \in 1..Len(walls) :
          /\ pointToSegmentDistanceSq(worldPos, walls[i].start, walls[i].end) = 0
          /\ worldPos \notin {walls[i].start, walls[i].end}
    /\ worldPos \notin WallEndpoints
    /\ \E v \in NearVertices : distanceSq(worldPos, v) = 9 /\ snappedPos[1] = v

-----------------------------------------------------------------------------
(* Furniture docking: src/src/hooks/useCanvas.ts, alignFurnitureToWall *)

\* A templateId is a sequence of one-character strings.
UpperCase == <<"A","B","C","D","E","F","G","H","I","J","K","L","M",
               "N","O","P","Q","R","S","T","U","V","W","X","Y","Z">>
LowerCase == <<"a","b","c","d","e","f","g","h","i","j","k","l","m",
               "n","o","p","q","r","s","t","u","v","w","x","y","z">>

\* String.prototype.toLowerCase
ToLowerCase(s) ==
    [i \in 1..Len(s) |-> IF \E k \in 1..Len(UpperCase) : UpperCase[k] = s[i]
                         THEN LowerCase[CHOOSE k \in 1..Len(UpperCase) : UpperCase[k] = s[i]]
                         ELSE s[i]]

\* String.prototype.includes
Includes(s, part) ==
    \E i \in 0..(Len(s) - Len(part)) : SubSeq(s, i + 1, i + Len(part)) = part

\* thresholds of alignFurnitureToWall, in centimetres
SOFA_THRESHOLD == 700
BED_THRESHOLD == 500

\* getClosestWall(p): the first physical wall at the least distance, with
\* the squared distance; <<>> when there is no physical wall.
RECURSIVE getClosestWall(_, _, _, _)
getClosestWall(p, ws, i, best) ==
    IF i > Len(ws) THEN best
    ELSE IF ws[i].isVirtual THEN getClosestWall(p, ws, i + 1, best)
    ELSE LET distSq == pointToSegmentDistanceSq(p, ws[i].start, ws[i].end)
         IN  IF best = <<>> \/ distSq < best[1].distanceSq
             THEN getClosestWall(p, ws, i + 1, <<[wall |-> ws[i], distanceSq |-> distSq]>>)
             ELSE getClosestWall(p, ws, i + 1, best)

\* Math.atan2(y, x) * 180 / Math.PI for an axis direction.  yNegativeZero
\* tells a y of -0 from +0: atan2(-0, x < 0) is -PI, atan2(+0, x < 0) is PI.
Atan2Deg(y, x, yNegativeZero) ==
    IF y > 0 THEN 90
    ELSE IF y < 0 THEN -90
    ELSE IF x > 0 THEN 0
    ELSE IF yNegativeZero THEN -180 ELSE 180

\* alignFurnitureToWall(item, worldPos).  A coordinate or rotation the code
\* computes as NaN (0/0 on a wall of zero length) is flagged by positionNaN /
\* rotationNaN.
alignFurnitureToWall(it, wp, ws) ==
    LET lowerId == ToLowerCase(it.templateId)
        isSofa == Includes(lowerId, <<"s","o","f","a">>)
        isBed == Includes(lowerId, <<"b","e","d">>)
        newItem == [it EXCEPT !.x = wp[1], !.y = wp[2]]
        closest == getClosestWall(wp, ws, 1, <<>>)
        threshold == IF isSofa THEN SOFA_THRESHOLD ELSE BED_THRESHOLD
    IN  IF ~isSofa /\ ~isBed THEN newItem
        ELSE IF closest = <<>> \/ closest[1].distanceSq > threshold * threshold THEN newItem
        ELSE
          LET wall == closest[1].wall
              wallVec == sub(wall.end, wall.start)
              len == Abs(wallVec[1]) + Abs(wallVec[2])
              docks == isBed /\ closest[1].distanceSq < BED_THRESHOLD * BED_THRESHOLD
          IN  IF len = 0
              THEN [newItem EXCEPT !.rotationNaN = TRUE, !.positionNaN = docks]
              ELSE
                LET nx == (-wallVec[2]) \div len
                    ny == wallVec[1] \div len
                    projPoint == PointOf(projectPointOnSegment(wp, wall.start, wall.end))
                    toCenter == sub(wp, projPoint)
                    side == IF toCenter[1] * nx + toCenter[2] * ny > 0 THEN 1 ELSE -1
                    facingAngle == Atan2Deg(ny * side, nx * side, ny = 0 /\ side = -1)
                    targetRotation == facingAngle - 90
                    offsetDist == (it.depth \div 2) + (wall.thickness \div 2)
                IN  IF docks
                    THEN [newItem EXCEPT !.rotation = targetRotation,
                                         !.x = projPoint[1] + nx * side * offsetDist,
                                         !.y = projPoint[2] + ny * side * offsetDist]
                    ELSE [newItem EXCEPT !.rotation = targetRotation]

MaxAlignWalls == 2

\* Walls in the four axis directions, a virtual wall, and a wall of zero
\* length (the wall a click in wall mode leaves: start = end).
AlignWallPool ==
    { Wall(0, <<0, 0>>, <<400, 0>>, 20, FALSE),
      Wall(0, <<400, -100>>, <<0, -100>>, 10, FALSE),
      Wall(0, <<0, 0>>, <<0, 300>>, 20, FALSE),
      Wall(0, <<500, 300>>, <<500, 0>>, 20, FALSE),
      Wall(0, <<0, 100>>, <<400, 100>>, 6, TRUE),
      Wall(0, <<200, 150>>, <<200, 150>>, 20, FALSE) }

Furniture(templateId, depth) ==
    [templateId |-> templateId, x |-> 0, y |-> 0, depth |-> depth, rotation |-> 0,
     positionNaN |-> FALSE, rotationNaN |-> FALSE]

FurniturePool ==
    { Furniture(<<"b","e","d","-","d","o","u","b","l","e">>, 200),
      Furniture(<<"K","i","n","g","B","e","d">>, 200),
      Furniture(<<"s","o","f","a","-","3">>, 90),
      Furniture(<<"n","i","g","h","t","s","t","a","n","d">>, 40),
      Furniture(<<"w","a","r","d","r","o","b","e">>, 60) }

DropXs == {-50, 0, 200, 450, 500, 950}
DropYs == {-300, 0, 50, 150, 600}

InitAlign ==
    /\ walls \in {Renumber(l) : l \in DistinctListsOver(AlignWallPool, MaxAlignWalls)}
    /\ item \in {<<f>> : f \in FurniturePool}
    /\ worldPos \in {<<x, y>> : x \in DropXs, y \in DropYs}
    /\ alignedItem = <<>>
    /\ snappedPos = <<>>
    /\ data = <<>>
    /\ targetArea = 0
    /\ constraints = <<>>
    /\ scale = <<>>
    /\ segment = <<>>
    /\ projection = <<>>
    /\ rooms = <<>>
    /\ viewerRooms = <<>>
    /\ NormIdle
    /\ pc = "dropping"
    /\ EditorIdle
    /\ AiIdle
    /\ ExtIdle

\* const alignedItem = alignFurnitureToWall(newItem, worldPos)
Align ==
    /\ pc = "dropping"
    /\ alignedItem' = <<alignFurnitureToWall(item[1], worldPos, walls)>>
    /\ pc' = "aligned"
    /\ UNCHANGED editorVars
    /\ UNCHANGED aiVars
    /\ UNCHANGED extVars
    /\ UNCHANGED <<worldPos, snappedPos, item, data, targetArea, constraints,
                   scale, segment, projection>>
    /\ UNCHANGED roomVars
    /\ UNCHANGED normVars

NextAlign == Align

SpecAlign == InitAlign /\ [][NextAlign]_vars

Sign(v) == IF v > 0 THEN 1 ELSE IF v < 0 THEN -1 ELSE 0

\* The physical walls at the least distance from the position
NearestPhysicalWalls ==
    LET physical == {i \in 1..Len(walls) : ~walls[i].isVirtual}
        d(i) == pointToSegmentDistanceSq(worldPos, walls[i].start, walls[i].end)
    IN  {walls[i] : i \in {k \in physical : \A j \in physical : d(k) <= d(j)}}

\* The unit vector at the given angle in degrees (a multiple of 90)
DirectionOf(angle) ==
    LET a == angle % 360
    IN  IF a = 0 THEN <<1, 0>> ELSE IF a = 90 THEN <<0, 1>>
        ELSE IF a = 180 THEN <<-1, 0>> ELSE <<0, -1>>

\* r is centred on the normal through the projection of the position on w,
\* thickness/2 + depth/2 from the centre line, on the side of the position
\* (any side when the position is on the wall's line), front away from w.
DockedAt(w, r) ==
    LET proj == PointOf(projectPointOnSegment(worldPos, w.start, w.end))
        wallVec == sub(w.end, w.start)
        off == <<r.x - proj[1], r.y - proj[2]>>
        toPos == sub(worldPos, proj)
        crossOf(v) == wallVec[1] * v[2] - wallVec[2] * v[1]
    IN  /\ ~r.positionNaN /\ ~r.rotationNaN
        /\ Dot(off, wallVec) = 0
        /\ 4 * Dot(off, off) = (w.thickness + item[1].depth) * (w.thickness + item[1].depth)
        /\ crossOf(toPos) # 0 => Sign(crossOf(off)) = Sign(crossOf(toPos))
        /\ <<Sign(off[1]), Sign(off[2])>> = DirectionOf(r.rotation + 90)

BedNearWall ==
    /\ pc = "aligned"
    /\ Includes(ToLowerCase(item[1].templateId), <<"b","e","d">>)
    /\ \E w \in NearestPhysicalWalls :
          pointToSegmentDistanceSq(worldPos, w.start, w.end)
              <= (4 * UnitsPerMeter) * (4 * UnitsPerMeter)

\* C8: a bed placed where the nearest physical wall is within 4 m is centred
\* at the wall projection offset along the normal by thickness/2 + depth/2,
\* on the side of the position, its front facing away from the wall.
C8_BedDocked ==
    BedNearWall => \E w \in NearestPhysicalWalls : DockedAt(w, alignedItem[1])

\* The same when no nearest physical wall has zero length.
BedDockedOnProperWall ==
    (BedNearWall /\ \A w \in NearestPhysicalWalls : w.start # w.end)
        => \E w \in NearestPhysicalWalls : DockedAt(w, alignedItem[1])

\* A bed was docked on the negative-normal side of a proper wall.
BedDockedWitness ==
    /\ BedNearWall
    /\ \E w \in NearestPhysicalWalls :
          /\ w.start # w.end
          /\ DockedAt(w, alignedItem[1])
          /\ alignedItem[1].rotation = -180
          /\ <<alignedItem[1].x, alignedItem[1].y>> # worldPos

-----------------------------------------------------------------------------
(* Scale calibration: src/src/utils/geometry.ts, convertVisionToWalls *)

\* let scale = 0.015 (default fallback) = FALLBACK_NUM / FALLBACK_DEN
FALLBACK_NUM == 15
FALLBACK_DEN == 1000
\* the bounding box taken when there is no point: 0..1000
DEFAULT_EXTENT == 1000
\* data.overall_width_meters || data.overall_width || 15.0
DEFAULT_WIDTH_METERS == 15

RECURSIVE Corners(_, _)
Corners(rs, i) == IF i > Len(rs) THEN <<>> ELSE rs[i] \o Corners(rs, i + 1)

\* allPoints: the footprint points, then every room's corners
AllPoints(d) == d.footprint \o Corners(d.rooms, 1)

\* minX, maxX, minY, maxY
BoundingBox(points) ==
    IF points = <<>>
    THEN [minX |-> 0, maxX |-> DEFAULT_EXTENT, minY |-> 0, maxY |-> DEFAULT_EXTENT]
    ELSE LET xs == {points[i][1] : i \in 1..Len(points)}
             ys == {points[i][2] : i \in 1..Len(points)}
         IN  [minX |-> CHOOSE v \in xs : \A u \in xs : v <= u,
              maxX |-> CHOOSE v \in xs : \A u \in xs : v >= u,
              minY |-> CHOOSE v \in ys : \A u \in ys : v <= u,
              maxY |-> CHOOSE v \in ys : \A u \in ys : v >= u]

\* A scale factor num/den, or its square root when root is TRUE
Ratio(num, den) == [num |-> num, den |-> den, root |-> FALSE]
Fallback == Ratio(FALLBACK_NUM, FALLBACK_DEN)

\* Number(constraints.landWidth) || 0
LandWidth(c) == IF c = <<>> THEN 0 ELSE c[1].landWidth
LandDepth(c) == IF c = <<>> THEN 0 ELSE c[1].landDepth

\* Mutant of ComputeScale: the site width is mapped to the drawing width.
ComputeScaleWidthToWidth(d, area, c) ==
    LET box == BoundingBox(AllPoints(d))
        unitWidth == box.maxX - box.minX
    IN  IF unitWidth > 0 /\ LandWidth(c) > 0 THEN Ratio(LandWidth(c), unitWidth)
        ELSE Fallback

\* 1. SCALING LOGIC
ComputeScale(d, area, c) ==
    LET box == BoundingBox(AllPoints(d))
        unitWidth == box.maxX - box.minX
        unitHeight == box.maxY - box.minY
        landLongest == Max(LandWidth(c), LandDepth(c))
        drawingLongest == Max(unitWidth, unitHeight)
        unitArea2 == Abs(ShoelaceSum(d.footprint))
        aiReportedMax == IF d.overall_width_meters # 0 THEN d.overall_width_meters
                         ELSE DEFAULT_WIDTH_METERS
    IN  IF landLongest > 0
        THEN (IF drawingLongest > 0 THEN Ratio(landLongest, drawingLongest) ELSE Fallback)
        ELSE IF area # 0 /\ Len(d.footprint) > 2
        THEN (IF unitArea2 > 0
              THEN [num |-> 2 * area, den |-> unitArea2, root |-> TRUE]
              ELSE Fallback)
        ELSE (IF drawingLongest > 0 THEN Ratio(aiReportedMax, drawingLongest) ELSE Fallback)

\* Footprints: none, 1000 x 600, 600 x 1000 away from the origin, a single
\* point, three coincident points.
FootprintPool ==
    { <<>>,
      << <<0, 0>>, <<1000, 0>>, <<1000, 600>>, <<0, 600>> >>,
      << <<100, 50>>, <<700, 50>>, <<700, 1050>>, <<100, 1050>> >>,
      << <<40, 40>> >>,
      << <<40, 40>>, <<40, 40>>, <<40, 40>> >> }

\* Room corner lists: none, a room inside the footprint, a room reaching
\* beyond it, a room collapsed to a point.
RoomsPool ==
    { <<>>,
      << << <<0, 0>>, <<500, 0>>, <<500, 300>>, <<0, 300>> >> >>,
      << << <<0, 0>>, <<1200, 0>>, <<1200, 300>> >>, << <<200, 200>>, <<300, 400>> >> >>,
      << << <<40, 40>>, <<40, 40>> >> >> }

SitePool ==
    { <<>>,
      <<[landWidth |-> 15, landDepth |-> 9]>>,
      <<[landWidth |-> 9, landDepth |-> 15]>>,
      <<[landWidth |-> 0, landDepth |-> 12]>>,
      <<[landWidth |-> 0, landDepth |-> 0]>>,
      <<[landWidth |-> -5, landDepth |-> 0]>> }

InitScale ==
    /\ data \in [footprint : FootprintPool, rooms : RoomsPool,
                 overall_width_meters : {0, 20}]
    /\ targetArea \in {0, 135}
    /\ constraints \in SitePool
    /\ scale = <<>>
    /\ worldPos = <<0, 0>>
    /\ snappedPos = <<>>
    /\ item = <<>>
    /\ alignedItem = <<>>
    /\ segment = <<>>
    /\ projection = <<>>
    /\ RoomsIdle
    /\ NormIdle
    /\ pc = "importing"
    /\ EditorIdle
    /\ AiIdle
    /\ ExtIdle

Calibrate ==
    /\ pc = "importing"
    /\ scale' = <<ComputeScale(data, targetArea, constraints)>>
    /\ pc' = "scaled"
    /\ UNCHANGED editorVars
    /\ UNCHANGED aiVars
    /\ UNCHANGED extVars
    /\ UNCHANGED <<worldPos, snappedPos, item, alignedItem, data, targetArea,
                   constraints, segment, projection>>
    /\ UNCHANGED roomVars
    /\ UNCHANGED normVars

NextScale == Calibrate

SpecScale == InitScale /\ [][NextScale]_vars

SiteLongest == Max(LandWidth(constraints), LandDepth(constraints))

DrawingLongest ==
    LET box == BoundingBox(AllPoints(data))
    IN  Max(box.maxX - box.minX, box.maxY - box.minY)

LongestToLongest ==
    /\ ~scale[1].root
    /\ scale[1].den > 0
    /\ scale[1].num * DrawingLongest = SiteLongest * scale[1].den

\* C9 as stated: with a positive site dimension, scale = siteLongest /
\* drawingLongest, so drawingLongest * scale = siteLongest, whichever axis is
\* the longer one in the drawing or the site.
C9_AnyDrawingLongestToLongest ==
    (pc = "scaled" /\ SiteLongest > 0) => LongestToLongest

\* C9 amended: the same, when the bounding box has a positive longest side.
C9_LongestToLongest ==
    (pc = "scaled" /\ SiteLongest > 0 /\ DrawingLongest > 0) => LongestToLongest

\* A drawing taller than wide mapped on a site wider than deep.
C9_Witness ==
    /\ pc = "scaled"
    /\ LET box == BoundingBox(AllPoints(data))
       IN  box.maxY - box.minY > box.maxX - box.minX
    /\ AllPoints(data) # <<>>
    /\ LandWidth(constraints) > LandDepth(constraints)
    /\ LandDepth(constraints) > 0
    /\ LongestToLongest

-----------------------------------------------------------------------------
(* The editor: src/src/hooks/useCanvas.ts handlers over useHistory          *)
(* (src/unnamed/part_011).  The undoable state is {walls, objects,          *)
(* selectedId}; no furniture or label is placed, the zoom stays at its      *)
(* default, the shift key is up and undo/redo are not pressed in the middle *)
(* of a pointer gesture.                                                     *)

MaxEditorWalls == 2
MaxObjects == 2
MaxPast == 3

\* viewState.zoom: 50 pixels = 1 meter
ZOOM == 50
\* thickness of a drawn wall, 0.2 m
DRAWN_THICKNESS == 20
\* a door/window/opening is dropped on a wall nearer than 0.5 m
DROP_DIST == 50

Present == [walls |-> walls, objects |-> objects, selectedId |-> selectedId]
History == [past |-> past, present |-> Present, future |-> future]

\* useHistory.set(newPresent, replace)
set(h, newPresent, replace) ==
    IF replace THEN [h EXCEPT !.present = newPresent]
    ELSE [past |-> Append(h.past, h.present), present |-> newPresent, future |-> <<>>]

\* useHistory.snapshot()
snapshot(h) == [past |-> Append(h.past, h.present), present |-> h.present, future |-> <<>>]

\* useHistory.undo()
undo(h) ==
    IF Len(h.past) = 0 THEN h
    ELSE [past |-> SubSeq(h.past, 1, Len(h.past) - 1),
          present |-> h.past[Len(h.past)],
          future |-> <<h.present>> \o h.future]

\* useHistory.redo()
redo(h) ==
    IF Len(h.future) = 0 THEN h
    ELSE [past |-> Append(h.past, h.present),
          present |-> h.future[1],
          future |-> SubSeq(h.future, 2, Len(h.future))]

\* The history h becomes the editor's history.
Becomes(h) ==
    /\ walls' = h.present.walls
    /\ objects' = h.present.objects
    /\ selectedId' = h.present.selectedId
    /\ past' = h.past
    /\ future' = h.future

\* Array.prototype.find on ids: <<element>> or <<>>
FindById(s, id) ==
    IF \E i \in 1..Len(s) : s[i].id = id
    THEN <<s[CHOOSE i \in 1..Len(s) : s[i].id = id /\ \A j \in 1..(i - 1) : s[j].id # id]>>
    ELSE <<>>

\* a + (b - a) * t for t = pr.tN / pr.den, rounded down to the lattice
Lerp(a, b, pr) ==
    <<a[1] + ((b[1] - a[1]) * pr.tN) \div pr.den,
      a[2] + ((b[2] - a[2]) * pr.tN) \div pr.den>>

NoDrag == [kind |-> "none", p |-> <<0, 0>>]

\* handleMouseDown, wall mode: a wall of zero length at the snapped position
MouseDownWall(h, p, id) ==
    LET startPos == snapToVertex(p, DEFAULT_THRESHOLD, h.present.walls)
        newWall == Wall(id, startPos, startPos, DRAWN_THICKNESS, FALSE)
    IN  set(h, [h.present EXCEPT !.walls = Append(h.present.walls, newWall),
                                 !.selectedId = id], FALSE)

\* The position of a wall object on its wall
ObjectPos(wall, obj) ==
    Lerp(wall.start, wall.end, [tN |-> obj.positionN, den |-> obj.positionDen])

\* handleMouseDown, select mode: the hit object, <<>> if none
RECURSIVE HitObject(_, _, _, _)
HitObject(p, ws, objs, i) ==
    IF i > Len(objs) THEN <<>>
    ELSE LET wall == FindById(ws, objs[i].wallId)
         IN  IF wall # <<>> /\ 4 * distanceSq(p, ObjectPos(wall[1], objs[i]))
                                   < objs[i].width * objs[i].width
             THEN <<objs[i]>>
             ELSE HitObject(p, ws, objs, i + 1)

\* handleMouseDown, select mode: the first wall with an endpoint nearer than
\* 10 / zoom, with the endpoint hit (start before end)
RECURSIVE HitEndpoint(_, _, _)
HitEndpoint(p, ws, i) ==
    LET threshold == (10 * UnitsPerMeter) \div ZOOM
    IN  IF i > Len(ws) THEN <<>>
        ELSE IF distanceSq(p, ws[i].start) < threshold * threshold
             THEN <<[id |-> ws[i].id, kind |-> "start"]>>
        ELSE IF distanceSq(p, ws[i].end) < threshold * threshold
             THEN <<[id |-> ws[i].id, kind |-> "end"]>>
        ELSE HitEndpoint(p, ws, i + 1)

\* handleMouseDown, select mode: the first wall whose body is nearer than
\* thickness / 2 + 5 / zoom
RECURSIVE HitBody(_, _, _)
HitBody(p, ws, i) ==
    IF i > Len(ws) THEN <<>>
    ELSE LET reach == (ws[i].thickness \div 2) + (5 * UnitsPerMeter) \div ZOOM
         IN  IF pointToSegmentDistanceSq(p, ws[i].start, ws[i].end) < reach * reach
             THEN <<ws[i].id>>
             ELSE HitBody(p, ws, i + 1)

\* handleMouseDown, select mode (no furniture): the selection is cleared,
\* then an object, a wall endpoint or a wall body under the pointer is
\* picked, a checkpoint is made and the hit is selected.  The result is
\* [h, movingObjectId, movingWallId, dragOffset].
MouseDownSelect(h, p) ==
    LET ws == h.present.walls
        obj == HitObject(p, ws, h.present.objects, 1)
        endpoint == IF obj # <<>> THEN <<>> ELSE HitEndpoint(p, ws, 1)
        body == IF obj # <<>> \/ endpoint # <<>> THEN <<>> ELSE HitBody(p, ws, 1)
        hitId == IF obj # <<>> THEN obj[1].id
                 ELSE IF endpoint # <<>> THEN endpoint[1].id
                 ELSE IF body # <<>> THEN body[1]
                 ELSE 0
        h1 == set(h, [h.present EXCEPT !.selectedId = 0], FALSE)
        h2 == IF hitId # 0 THEN snapshot(h1) ELSE h1
        h3 == IF h.present.selectedId # hitId
              THEN set(h2, [h2.present EXCEPT !.selectedId = hitId], FALSE)
              ELSE h2
    IN  [h |-> h3,
         movingObjectId |-> IF obj # <<>> THEN obj[1].id ELSE 0,
         movingWallId |-> IF endpoint # <<>> \/ body # <<>> THEN hitId ELSE 0,
         dragOffset |-> IF endpoint # <<>> THEN [kind |-> endpoint[1].kind, p |-> <<0, 0>>]
                        ELSE IF body # <<>> THEN [kind |-> "point", p |-> p]
                        ELSE NoDrag]

\* handleMouseMove while a wall is drawn: its end follows the pointer
MoveActiveWall(present, p, id) ==
    LET snappedTo == snapToVertex(p, DEFAULT_THRESHOLD, present.walls)
    IN  [present EXCEPT !.walls = [k \in 1..Len(present.walls) |->
            IF present.walls[k].id = id
            THEN [present.walls[k] EXCEPT !.end = snappedTo]
            ELSE present.walls[k]]]

\* handleMouseMove while an object is dragged: its position is the
\* parameter of the pointer's projection on its wall
MoveObject(present, p, id) ==
    LET obj == FindById(present.objects, id)
        wall == IF obj = <<>> THEN <<>> ELSE FindById(present.walls, obj[1].wallId)
    IN  IF obj = <<>> \/ wall = <<>> THEN present
        ELSE LET pr == projectPointOnSegment(p, wall[1].start, wall[1].end)
             IN  [present EXCEPT !.objects = [k \in 1..Len(present.objects) |->
                    IF present.objects[k].id = id
                    THEN [present.objects[k] EXCEPT !.positionN = pr.tN,
                                                    !.positionDen = pr.den]
                    ELSE present.objects[k]]]

\* An endpoint of some wall after the dragged end `moved` of the wall
\* oldStart-oldEnd went to snappedTo and `fixed` stayed: endpoints at the
\* moved end follow, endpoints on the old body are re-attached.
DraggedEndpoint(e, oldStart, oldEnd, moved, fixedIsStart, snappedTo) ==
    LET e1 == IF e = moved THEN snappedTo ELSE e
        eps == (EPSILON_NUM * UnitsPerMeter) \div EPSILON_DEN
        wasOnWall == pointToSegmentDistanceSq(e1, oldStart, oldEnd) < eps * eps
        pr == projectPointOnSegment(e1, oldStart, oldEnd)
    IN  IF wasOnWall /\ distanceSq(e1, oldStart) > eps * eps
                     /\ distanceSq(e1, oldEnd) > eps * eps
        THEN (IF fixedIsStart THEN Lerp(oldStart, snappedTo, pr)
              ELSE Lerp(snappedTo, oldEnd, pr))
        ELSE e1

\* handleMouseMove while a wall endpoint is dragged
MoveEndpoint(present, p, id, kind) ==
    LET snappedTo == snapToVertex(p, DEFAULT_THRESHOLD, present.walls)
        movingWall == FindById(present.walls, id)
    IN  IF movingWall = <<>> THEN present
        ELSE LET oldStart == movingWall[1].start
                 oldEnd == movingWall[1].end
                 moved == IF kind = "start" THEN oldStart ELSE oldEnd
                 at(e) == DraggedEndpoint(e, oldStart, oldEnd, moved, kind = "end", snappedTo)
             IN  [present EXCEPT !.walls = [k \in 1..Len(present.walls) |->
                    [present.walls[k] EXCEPT !.start = at(present.walls[k].start),
                                             !.end = at(present.walls[k].end)]]]

\* handleMouseMove while a wall body is dragged: the wall is translated and
\* endpoints within 0.05 m of its old ends follow
MoveBody(present, p, id, anchor) ==
    LET movingWall == FindById(present.walls, id)
        d == sub(p, anchor)
        eps == (EPSILON_NUM * UnitsPerMeter) \div EPSILON_DEN
    IN  IF movingWall = <<>> THEN present
        ELSE LET oldStart == movingWall[1].start
                 oldEnd == movingWall[1].end
                 newStart == add(oldStart, d)
                 newEnd == add(oldEnd, d)
                 follow(e) == IF distanceSq(e, oldStart) < eps * eps THEN newStart
                              ELSE IF distanceSq(e, oldEnd) < eps * eps THEN newEnd
                              ELSE e
             IN  [present EXCEPT !.walls = [k \in 1..Len(present.walls) |->
                    IF present.walls[k].id = id
                    THEN [present.walls[k] EXCEPT !.start = newStart, !.end = newEnd]
                    ELSE [present.walls[k] EXCEPT !.start = follow(present.walls[k].start),
                                                  !.end = follow(present.walls[k].end)]]]

\* handleMouseMove: the branches in the order of the code, each replacing
\* the present without a history entry
handleMouseMove(present, p, active, movingObject, movingWall, drag) ==
    LET p1 == IF active # 0 THEN MoveActiveWall(present, p, active) ELSE present
        p2 == IF movingObject # 0 THEN MoveObject(p1, p, movingObject) ELSE p1
    IN  IF movingWall # 0 /\ drag.kind # "none"
        THEN (IF drag.kind = "point" THEN MoveBody(p2, p, movingWall, drag.p)
              ELSE MoveEndpoint(p2, p, movingWall, drag.kind))
        ELSE p2

\* handleDrop of a door, window or opening: the nearest physical wall nearer
\* than 0.5 m, <<>> if none
RECURSIVE DropWall(_, _, _, _)
DropWall(p, ws, i, best) ==
    IF i > Len(ws) THEN best
    ELSE IF ws[i].isVirtual THEN DropWall(p, ws, i + 1, best)
    ELSE LET distSq == pointToSegmentDistanceSq(p, ws[i].start, ws[i].end)
         IN  IF distSq < DROP_DIST * DROP_DIST /\ (best = <<>> \/ distSq < best[1].distSq)
             THEN DropWall(p, ws, i + 1, <<[wall |-> ws[i], distSq |-> distSq]>>)
             ELSE DropWall(p, ws, i + 1, best)

\* width of a door, window, opening in centimetres
ObjectWidth(type) == IF type = "door" THEN 90 ELSE IF type = "window" THEN 120 ELSE 150

handleDrop(h, type, p, id) ==
    LET best == DropWall(p, h.present.walls, 1, <<>>)
    IN  IF best = <<>> THEN h
        ELSE LET pr == projectPointOnSegment(p, best[1].wall.start, best[1].wall.end)
                 newObj == [id |-> id, wallId |-> best[1].wall.id, type |-> type,
                            positionN |-> pr.tN, positionDen |-> pr.den,
                            width |-> ObjectWidth(type)]
                 h1 == snapshot(h)
             IN  set(h1, [h1.present EXCEPT !.objects = Append(h1.present.objects, newObj),
                                            !.selectedId = id], FALSE)

\* Mutant of deleteSelection: the objects on a deleted wall are kept.
deleteSelectionNoCascade(h) ==
    IF h.present.selectedId = 0 THEN h
    ELSE LET sel == h.present.selectedId
             h1 == snapshot(h)
             keepWall(w) == w.id # sel
             keepObject(o) == o.id # sel
         IN  set(h1, [walls |-> SelectSeq(h1.present.walls, keepWall),
                      objects |-> SelectSeq(h1.present.objects, keepObject),
                      selectedId |-> 0], FALSE)

deleteSelection(h) ==
    IF h.present.selectedId = 0 THEN h
    ELSE LET sel == h.present.selectedId
             h1 == snapshot(h)
             keepWall(w) == w.id # sel
             keepObject(o) == o.id # sel /\ o.wallId # sel
         IN  set(h1, [walls |-> SelectSeq(h1.present.walls, keepWall),
                      objects |-> SelectSeq(h1.present.objects, keepObject),
                      selectedId |-> 0], FALSE)

MaxIds == 4

\* Pointer positions: two corners, and a point 2 cm off the middle of a side
PointerPool == {<<0, 0>>, <<100, 0>>, <<50, 2>>}

NoGesture == activeWallId = 0 /\ movingWallId = 0 /\ movingObjectId = 0

ToolsUntouched ==
    /\ UNCHANGED <<rooms, viewerRooms, pc>>
    /\ UNCHANGED normVars
    /\ UNCHANGED toolVars
    /\ UNCHANGED aiVars
    /\ UNCHANGED extVars

\* An autosaved session: a wall carrying a door (drawn, then dropped).
SavedWall == Wall(1, <<0, 0>>, <<100, 0>>, DRAWN_THICKNESS, FALSE)
SavedDoor == [id |-> 2, wallId |-> 1, type |-> "door", positionN |-> 1, positionDen |-> 2,
              width |-> ObjectWidth("door")]

\* Layout on mount: the empty editor, or resetCanvas() then
\* setHistory(saved, true) with the autosaved session (nothing, the wall or
\* the door selected); the history starts empty either way.
InitEditor ==
    /\ \/ walls = <<>> /\ objects = <<>> /\ selectedId = 0 /\ nextId = 1
       \/ /\ walls = <<SavedWall>>
          /\ objects = <<SavedDoor>>
          /\ selectedId \in {0, 1, 2}
          /\ nextId = 3
    /\ past = <<>>
    /\ future = <<>>
    /\ mode = "select"
    /\ activeWallId = 0
    /\ movingWallId = 0
    /\ movingObjectId = 0
    /\ dragOffset = NoDrag
    /\ AiIdle
    /\ ExtIdle
    /\ rooms = <<>>
    /\ viewerRooms = <<>>
    /\ NormIdle
    /\ ToolIdle
    /\ pc = "editing"

\* onToolSelect: setViewState(prev => ({ ...prev, mode }))
SetMode ==
    /\ \E m \in {"select", "wall"} : m # mode /\ mode' = m
    /\ UNCHANGED <<walls, objects, selectedId, past, future, activeWallId,
                   movingWallId, movingObjectId, dragOffset, nextId>>
    /\ ToolsUntouched

\* handleMouseDown (left button, no gesture under way)
MouseDown ==
    /\ NoGesture
    /\ \E p \in PointerPool :
          \/ /\ mode = "wall"
             /\ Len(walls) < MaxEditorWalls /\ Len(past) < MaxPast /\ nextId <= MaxIds
             /\ Becomes(MouseDownWall(History, p, nextId))
             /\ activeWallId' = nextId
             /\ nextId' = nextId + 1
             /\ UNCHANGED <<movingWallId, movingObjectId, dragOffset>>
          \/ /\ mode = "select"
             /\ Len(past) + 3 <= MaxPast
             /\ LET r == MouseDownSelect(History, p)
                IN  /\ Becomes(r.h)
                    /\ movingObjectId' = r.movingObjectId
                    /\ movingWallId' = r.movingWallId
                    /\ dragOffset' = r.dragOffset
             /\ UNCHANGED <<activeWallId, nextId>>
    /\ UNCHANGED mode
    /\ ToolsUntouched

\* handleMouseMove during a gesture, the pointer at p
MouseMoveTo(p) ==
    /\ ~NoGesture
    /\ Becomes(set(History,
                   handleMouseMove(Present, p, activeWallId, movingObjectId,
                                   movingWallId, dragOffset), TRUE))
    /\ dragOffset' = IF movingWallId # 0 /\ dragOffset.kind = "point"
                     THEN [kind |-> "point", p |-> p] ELSE dragOffset
    /\ UNCHANGED <<mode, activeWallId, movingWallId, movingObjectId, nextId>>
    /\ ToolsUntouched

MouseMove == \E p \in PointerPool : MouseMoveTo(p)

\* handleMouseUp
MouseUp ==
    /\ mode' = IF activeWallId # 0 THEN "select" ELSE mode
    /\ activeWallId' = 0
    /\ movingWallId' = 0
    /\ movingObjectId' = 0
    /\ dragOffset' = NoDrag
    /\ UNCHANGED <<walls, objects, selectedId, past, future, nextId>>
    /\ ToolsUntouched

\* handleDrop of a door, window or opening
Drop ==
    /\ Len(objects) < MaxObjects /\ Len(past) + 2 <= MaxPast /\ nextId <= MaxIds
    /\ \E type \in {"door", "window"}, p \in PointerPool :
          /\ Becomes(handleDrop(History, type, p, nextId))
          /\ nextId' = IF DropWall(p, walls, 1, <<>>) = <<>> THEN nextId ELSE nextId + 1
    /\ UNCHANGED <<mode, activeWallId, movingWallId, movingObjectId, dragOffset>>
    /\ ToolsUntouched

DeleteSelection ==
    /\ selectedId # 0
    /\ Len(past) + 2 <= MaxPast
    /\ Becomes(deleteSelection(History))
    /\ UNCHANGED <<mode, activeWallId, movingWallId, movingObjectId, dragOffset, nextId>>
    /\ ToolsUntouched

\* undo (ctrl-z), pressed while no pointer gesture is under way
Undo ==
    /\ NoGesture
    /\ Len(past) > 0
    /\ Becomes(undo(History))
    /\ UNCHANGED <<mode, activeWallId, movingWallId, movingObjectId, dragOffset, nextId>>
    /\ ToolsUntouched

\* redo (ctrl-y, ctrl-shift-z), pressed while no pointer gesture is under way
Redo ==
    /\ NoGesture
    /\ Len(future) > 0
    /\ Becomes(redo(History))
    /\ UNCHANGED <<mode, activeWallId, movingWallId, movingObjectId, dragOffset, nextId>>
    /\ ToolsUntouched

NextEditor ==
    \/ SetMode
    \/ MouseDown
    \/ MouseMove
    \/ MouseUp
    \/ Drop
    \/ DeleteSelection
    \/ Undo
    \/ Redo

SpecEditor == InitEditor /\ [][NextEditor]_vars

WallIds(ws) == {ws[i].id : i \in 1..Len(ws)}

\* Every object of the state sits on a wall of the same state.
Attached(st) == \A i \in 1..Len(st.objects) : st.objects[i].wallId \in WallIds(st.walls)

ReferentialIntegrity ==
    /\ Attached(Present)
    /\ \A i \in 1..Len(past) : Attached(past[i])
    /\ \A i \in 1..Len(future) : Attached(future[i])

\* Deleting a selected wall removes it and the objects on it, nothing else.
DeleteCascades ==
    (DeleteSelection /\ selectedId \in WallIds(walls)) =>
        /\ Range(walls') = {w \in Range(walls) : w.id # selectedId}
        /\ Range(objects') = {o \in Range(objects) : o.wallId # selectedId}
        /\ Len(walls') = Len(walls) - 1

\* C11: in every reachable editor state each object's wallId is the id of a
\* wall of the same state, and deleteSelection on a selected wall removes
\* that wall with every object on it and nothing else.
C11_ReferentialIntegrity == []ReferentialIntegrity /\ [][DeleteCascades]_vars

\* A wall carrying an object was selected and deleted; both are gone.
C11_Witness ==
    /\ Len(past) > 0
    /\ LET before == past[Len(past)]
       IN  /\ before.selectedId \in WallIds(before.walls)
           /\ \E i \in 1..Len(before.objects) :
                 /\ before.objects[i].wallId = before.selectedId
                 /\ before.objects[i] \notin Range(objects)
           /\ before.selectedId \notin WallIds(walls)
           /\ selectedId = 0

\* C12: once a gesture has ended (after mouse-up) no wall of the wall set
\* has start equal to end; a wall-mode click without movement leaves no wall.
C12_NoZeroLengthWall ==
    NoGesture => \A i \in 1..Len(walls) : walls[i].start # walls[i].end

-----------------------------------------------------------------------------
(* AIService.retryWithBackoff: src/src/utils/geometry.ts:794-846.  Error     *)
(* messages are sequences of one-character strings; a hint's number is a     *)
(* decimal with at most three fraction digits.  Times are milliseconds.      *)

MaxRetries == 3

\* retries: number = 3, baseDelay: number = 2000
DEFAULT_RETRIES == 3
DEFAULT_BASE_DELAY == 2000
\* generateImage retries with (3, 5000)
IMAGE_BASE_DELAY == 5000
\* if (delay > 60000) delay = 60000
MAX_DELAY == 60000
\* (parseFloat(match[1]) * 1000) + 1000
HINT_BUFFER == 1000

\* The characters of a string
Chars(str) == [i \in 1..Len(str) |-> SubSeq(str, i, i)]

Digits == <<"0", "1", "2", "3", "4", "5", "6", "7", "8", "9">>

IsDigit(c) == \E k \in 1..10 : Digits[k] = c

DigitValue(c) == (CHOOSE k \in 1..10 : Digits[k] = c) - 1

\* \s
IsSpace(c) == c = " "

\* The index after the longest run of \s starting at i
RECURSIVE SpaceEnd(_, _)
SpaceEnd(s, i) == IF i <= Len(s) /\ IsSpace(s[i]) THEN SpaceEnd(s, i + 1) ELSE i

\* The index after the longest run of [0-9.] starting at i
RECURSIVE NumberEnd(_, _)
NumberEnd(s, i) ==
    IF i <= Len(s) /\ (IsDigit(s[i]) \/ s[i] = ".") THEN NumberEnd(s, i + 1) ELSE i

\* The index after the longest run of digits starting at i
RECURSIVE DigitsEnd(_, _)
DigitsEnd(s, i) == IF i <= Len(s) /\ IsDigit(s[i]) THEN DigitsEnd(s, i + 1) ELSE i

\* The number a run of digits writes
RECURSIVE DigitsValue(_)
DigitsValue(s) ==
    IF s = <<>> THEN 0
    ELSE 10 * DigitsValue(SubSeq(s, 1, Len(s) - 1)) + DigitValue(s[Len(s)])

\* parseFloat(s) * 1000 for s in [0-9.]+ : <<ms>>, or <<>> for NaN
ParseFloatMillis(s) ==
    LET intEnd == DigitsEnd(s, 1)
        fracStart == IF intEnd <= Len(s) /\ s[intEnd] = "." THEN intEnd + 1 ELSE intEnd
        fracEnd == IF fracStart > intEnd THEN DigitsEnd(s, fracStart) ELSE intEnd
        intPart == SubSeq(s, 1, intEnd - 1)
        fracPart == IF fracStart > intEnd THEN SubSeq(s, fracStart, fracEnd - 1) ELSE <<>>
        frac3 == SubSeq(fracPart \o <<"0", "0", "0">>, 1, 3)
    IN  IF intPart = <<>> /\ fracPart = <<>> THEN <<>>
        ELSE <<1000 * DigitsValue(intPart) + DigitsValue(frac3)>>

\* msg.match(/retry in\s+([0-9.]+)\s*s/i) at index i: <<group>> or <<>>
HintAt(msg, i) ==
    LET lower == ToLowerCase(msg)
        key == Chars("retry in")
        from == i + Len(key)
        numStart == SpaceEnd(msg, from)
        numEnd == NumberEnd(msg, numStart)
        unit == SpaceEnd(msg, numEnd)
    IN  IF /\ i + Len(key) - 1 <= Len(msg)
           /\ SubSeq(lower, i, i + Len(key) - 1) = key
           /\ numStart > from
           /\ numEnd > numStart
           /\ unit <= Len(msg)
           /\ lower[unit] = "s"
        THEN <<SubSeq(msg, numStart, numEnd - 1)>>
        ELSE <<>>

\* msg.match(/retry in\s+([0-9.]+)\s*s/i): the group of the first match
RetryHint(msg) ==
    IF \E i \in 1..Len(msg) : HintAt(msg, i) # <<>>
    THEN HintAt(msg, CHOOSE i \in 1..Len(msg) :
                        /\ HintAt(msg, i) # <<>>
                        /\ \A j \in 1..(i - 1) : HintAt(msg, j) = <<>>)
    ELSE <<>>

\* msg.includes('limit: 0') || 'API key not valid' || '403' || '400'
IsHardError(msg) ==
    \/ Includes(msg, Chars("limit: 0"))
    \/ Includes(msg, Chars("API key not valid"))
    \/ Includes(msg, Chars("403"))
    \/ Includes(msg, Chars("400"))

\* msg.includes('429') || 'Quota exceeded' || 'rate-limit' || '503'
IsRateLimit(msg) ==
    \/ Includes(msg, Chars("429"))
    \/ Includes(msg, Chars("Quota exceeded"))
    \/ Includes(msg, Chars("rate-limit"))
    \/ Includes(msg, Chars("503"))

\* Mutant of NextDelay: the 60 s ceiling is not applied.
NextDelayUncapped(msg, delay0) ==
    LET hint == RetryHint(msg)
        ms == IF hint = <<>> THEN <<>> ELSE ParseFloatMillis(hint[1])
    IN  IF ms # <<>> THEN ms[1] + HINT_BUFFER ELSE delay0 * 2

\* The delay before the next attempt
NextDelay(msg, delay0) ==
    LET hint == RetryHint(msg)
        ms == IF hint = <<>> THEN <<>> ELSE ParseFloatMillis(hint[1])
        delay == IF ms # <<>> THEN ms[1] + HINT_BUFFER ELSE delay0 * 2
    IN  IF delay > MAX_DELAY THEN MAX_DELAY ELSE delay

LIMIT_MESSAGE ==
    Chars("Your API Key does not have access to 'gemini-2.0-flash-exp'. Please check your Google AI Studio billing/plan or use a different model.")

\* Mutant of catchError: the rate-limit test comes before the hard-error test.
catchErrorRateLimitFirst(msg, retriesLeft, delay0) ==
    IF IsRateLimit(msg) /\ retriesLeft > 0
    THEN [kind |-> "wait", error |-> msg, delay |-> NextDelay(msg, delay0)]
    ELSE IF IsHardError(msg)
    THEN [kind |-> "throw",
          error |-> IF Includes(msg, Chars("limit: 0")) THEN LIMIT_MESSAGE ELSE msg,
          delay |-> 0]
    ELSE [kind |-> "throw", error |-> msg, delay |-> 0]

\* Mutant of catchError: a rate-limit error is retried whatever is left.
catchErrorNoBudget(msg, retriesLeft, delay0) ==
    IF IsHardError(msg)
    THEN [kind |-> "throw",
          error |-> IF Includes(msg, Chars("limit: 0")) THEN LIMIT_MESSAGE ELSE msg,
          delay |-> 0]
    ELSE IF IsRateLimit(msg)
    THEN [kind |-> "wait", error |-> msg, delay |-> NextDelay(msg, delay0)]
    ELSE [kind |-> "throw", error |-> msg, delay |-> 0]

\* The catch block: rethrow, or wait `delay` and try again
catchError(msg, retriesLeft, delay0) ==
    IF IsHardError(msg)
    THEN [kind |-> "throw",
          error |-> IF Includes(msg, Chars("limit: 0")) THEN LIMIT_MESSAGE ELSE msg,
          delay |-> 0]
    ELSE IF IsRateLimit(msg) /\ retriesLeft > 0
    THEN [kind |-> "wait", error |-> msg, delay |-> NextDelay(msg, delay0)]
    ELSE [kind |-> "throw", error |-> msg, delay |-> 0]

\* Error messages an operation rejects with
ErrorPool ==
    { Chars("[429 Too Many Requests] Resource has been exhausted"),
      Chars("[429] Quota exceeded. Please retry in 12.5s."),
      Chars("[503] overloaded, Retry in  75 S"),
      Chars("[403] rate-limit policy"),
      Chars("[429] Quota exceeded for metric, limit: 0"),
      Chars("API key not valid. Please pass a valid API key."),
      Chars("[429] Please retry in 400s"),
      Chars("fetch failed") }

\* Error messages the image and vision requests reject with
ServiceErrors ==
    { Chars("[503] Service Unavailable"),
      Chars("[400] Bad Request") }

ErrorsOf(name) == IF name = "operation" THEN ErrorPool ELSE ServiceErrors

\* A response of the service: whether its text parses as JSON, whether it
\* carries image data, and the footprint and rooms arrays of the JSON
\* (<<>> when missing, <<array>> otherwise; rooms as their scaled edges).
Response(parses, image, footprint, roomEdges) ==
    [parses |-> parses, image |-> image, footprint |-> footprint, rooms |-> roomEdges]

SiteFootprint == << <<0, 0>>, <<600, 0>>, <<600, 400>>, <<0, 400>> >>

PartitionRoom == << Edge(<<300, 0>>, <<300, 400>>, FALSE) >>

LoneRoom ==
    << Edge(<<0, 0>>, <<300, 0>>, FALSE), Edge(<<300, 0>>, <<300, 300>>, FALSE),
       Edge(<<300, 300>>, <<0, 300>>, FALSE), Edge(<<0, 300>>, <<0, 0>>, FALSE) >>

ResponsesOf(name) ==
    IF name = "image"
    THEN {Response(FALSE, TRUE, <<>>, <<>>), Response(FALSE, FALSE, <<>>, <<>>)}
    ELSE IF name = "structural"
    THEN {Response(TRUE, FALSE, <<SiteFootprint>>, <<PartitionRoom>>),
          Response(TRUE, FALSE, <<>>, <<LoneRoom>>),
          Response(TRUE, FALSE, <<SiteFootprint>>, <<>>),
          Response(FALSE, FALSE, <<>>, <<>>)}
    ELSE IF name = "furniture"
    THEN {Response(TRUE, FALSE, <<>>, <<>>), Response(FALSE, FALSE, <<>>, <<>>)}
    ELSE {Response(TRUE, FALSE, <<>>, <<>>)}

BaseDelays == {DEFAULT_BASE_DELAY, IMAGE_BASE_DELAY}

\* retryWithBackoff(operation, r, d) is entered for the request `name`.
EnterRetry(name, r, d) ==
    /\ stage' = name
    /\ retriesArg' = r
    /\ baseDelayArg' = d
    /\ retries' = r
    /\ baseDelay' = d
    /\ invocations' = 0
    /\ waits' = <<>>
    /\ errors' = <<>>
    /\ thrown' = <<>>
    /\ result' = <<>>
    /\ pendingDelay' = 0
    /\ rpc' = "invoke"

InitRetry ==
    /\ walls = <<>>
    /\ RoomsIdle
    /\ NormIdle
    /\ ToolIdle
    /\ EditorIdle
    /\ ExtIdle
    /\ stage = "operation"
    /\ retriesArg \in 0..MaxRetries
    /\ retries = retriesArg
    /\ baseDelayArg \in BaseDelays
    /\ baseDelay = baseDelayArg
    /\ ImportIdle
    /\ invocations = 0
    /\ waits = <<>>
    /\ errors = <<>>
    /\ thrown = <<>>
    /\ result = <<>>
    /\ pendingDelay = 0
    /\ rpc = "invoke"
    /\ requests = <<>>
    /\ pc = "retrying"

OthersUntouched ==
    /\ UNCHANGED <<walls, rooms, viewerRooms, pc>>
    /\ UNCHANGED extVars
    /\ UNCHANGED normVars
    /\ UNCHANGED toolVars
    /\ UNCHANGED editorVars

\* try { return await operation() } catch (error) { ... }: one invocation,
\* up to the return, the throw or the start of the timer
Attempt ==
    /\ rpc = "invoke"
    /\ invocations' = invocations + 1
    /\ requests' = Append(requests, stage)
    /\ \/ \E body \in ResponsesOf(stage) :
             /\ result' = <<[attempt |-> invocations + 1, body |-> body]>>
             /\ rpc' = "resolved"
             /\ UNCHANGED <<errors, waits, pendingDelay, thrown>>
       \/ \E msg \in ErrorsOf(stage) :
             LET c == catchError(msg, retries, baseDelay)
             IN  /\ errors' = Append(errors, msg)
                 /\ IF c.kind = "wait"
                    THEN /\ rpc' = "waiting"
                         /\ pendingDelay' = c.delay
                         /\ waits' = Append(waits, c.delay)
                         /\ UNCHANGED thrown
                    ELSE /\ rpc' = "rejected"
                         /\ thrown' = <<c.error>>
                         /\ UNCHANGED <<waits, pendingDelay>>
                 /\ UNCHANGED result
    /\ UNCHANGED <<stage, retriesArg, baseDelayArg, retries, baseDelay>>
    /\ UNCHANGED importVars
    /\ OthersUntouched

\* The timer fires: return this.retryWithBackoff(operation, retries - 1, delay)
TimerFires ==
    /\ rpc = "waiting"
    /\ retries' = retries - 1
    /\ baseDelay' = pendingDelay
    /\ rpc' = "invoke"
    /\ UNCHANGED <<stage, retriesArg, baseDelayArg, invocations, waits, errors,
                   thrown, result, pendingDelay, requests>>
    /\ UNCHANGED importVars
    /\ OthersUntouched

NextRetry == Attempt \/ TimerFires

SpecRetry == InitRetry /\ [][NextRetry]_vars

\* The timer set by setTimeout fires, and an invocation settles.
SpecRetryFair == SpecRetry /\ WF_vars(Attempt) /\ WF_vars(TimerFires)

\* The message carries a permanent marker, as C13 lists them.
Permanent(msg) ==
    \E m \in {"limit: 0", "API key not valid", "403", "400"} : Includes(msg, Chars(m))

\* The message carries a transient marker, as C13 lists them.
Transient(msg) ==
    \E m \in {"429", "Quota exceeded", "rate-limit", "503"} : Includes(msg, Chars(m))

\* The k-th failure ended the call at once: no invocation and no wait after it.
RejectedAt(k) ==
    /\ k = Len(errors)
    /\ rpc = "rejected"
    /\ thrown # <<>>
    /\ invocations = k
    /\ Len(waits) = k - 1

TransientOnly(msg) == Transient(msg) /\ ~Permanent(msg)

\* The call has settled.
Settled == rpc \in {"resolved", "rejected"}

RetryBounded == invocations <= retriesArg + 1

\* A transient failure with attempts left is followed by a wait and a retry.
RetriedWhileLeft ==
    \A k \in 1..Len(errors) :
        (TransientOnly(errors[k]) /\ k <= retriesArg) =>
            (k < Len(errors) \/ rpc \in {"waiting", "invoke", "resolved"})

\* The call resolves with the first success, which is the last invocation.
ResolvesWithFirstSuccess ==
    rpc = "resolved" =>
        /\ result # <<>> /\ result[1].attempt = invocations
        /\ Len(errors) = invocations - 1
        /\ thrown = <<>>

\* When every attempt failed transiently the last error is rethrown.
RejectsWithLastError ==
    (rpc = "rejected" /\ \A k \in 1..Len(errors) : TransientOnly(errors[k])) =>
        /\ invocations = retriesArg + 1
        /\ thrown = <<errors[Len(errors)]>>

\* C14: a transient failure is retried while attempts remain, the operation
\* is invoked at most retries + 1 times, the call settles, it resolves with
\* the first success without a further invocation, and when all attempts
\* fail transiently it rejects with the last error.
C14_BoundedRetry ==
    /\ [](RetryBounded /\ RetriedWhileLeft /\ ResolvesWithFirstSuccess
            /\ RejectsWithLastError)
    /\ [][Settled => (invocations' = invocations /\ Settled')]_vars
    /\ <>Settled

\* Four invocations with the default of 3 retries, all failed transiently.
C14_Witness ==
    /\ retriesArg = DEFAULT_RETRIES
    /\ invocations = DEFAULT_RETRIES + 1
    /\ rpc = "rejected"
    /\ \A k \in 1..Len(errors) : TransientOnly(errors[k])
    /\ thrown = <<errors[Len(errors)]>>

\* The time a message of the pool asks to wait, in milliseconds; <<>> if none
HintedMillis(msg) ==
    IF msg = Chars("[429] Quota exceeded. Please retry in 12.5s.") THEN <<12500>>
    ELSE IF msg = Chars("[503] overloaded, Retry in  75 S") THEN <<75000>>
    ELSE IF msg = Chars("[429] Please retry in 400s") THEN <<400000>>
    ELSE <<>>

\* The k-th wait is min(60000, d): d the hinted time plus one second, or
\* twice the delay of the step before (baseDelay for the first).
WaitAsStated(k) ==
    LET hint == HintedMillis(errors[k])
        before == IF k = 1 THEN baseDelayArg ELSE waits[k - 1]
        d == IF hint # <<>> THEN hint[1] + 1000 ELSE 2 * before
    IN  /\ waits[k] = Min(60000, d)
        /\ waits[k] <= 60000
        /\ hint # <<>> => (waits[k] >= hint[1] \/ waits[k] = 60000)

\* C15: every wait is min(60000 ms, d), d = 1000 * X + 1000 for a message
\* with a 'retry in X s' hint and twice the previous delay otherwise; no wait
\* exceeds 60 s and a hinted wait is not shorter than the hint unless capped.
C15_WaitTimes == \A k \in 1..Len(waits) : WaitAsStated(k)

\* A hinted wait, its double, and a hinted wait cut at the ceiling.
C15_Witness ==
    /\ Len(waits) = 3
    /\ HintedMillis(errors[1]) = <<12500>> /\ waits[1] = 13500
    /\ HintedMillis(errors[2]) = <<>> /\ waits[2] = 27000
    /\ HintedMillis(errors[3]) = <<75000>> /\ waits[3] = 60000

-----------------------------------------------------------------------------
(* AIService.generateLayout and mockOrRealImplementation                     *)
(* (src/src/utils/geometry.ts:757-1030) called by Layout.handleAIGenerate    *)
(* (src/unnamed/part_006:61-85).  Site dimensions are centimetres; a form    *)
(* field that does not parse as a number is <<>>.  Openings, furniture and   *)
(* labels of the response are left out and its coordinates are scaled.       *)

\* area estimates in square metres
LIVING_AREA == 18
KITCHEN_AREA == 9
BED_AREA == 11
BATH_AREA == 4

\* parseFloat(v) || 0, parseInt(v) || 0
OrZero(v) == IF v = <<>> THEN 0 ELSE v[1]

\* baseArea = livingArea + kitchenArea + bedArea + bathArea
BaseArea(f) ==
    LIVING_AREA + KITCHEN_AREA + OrZero(f.bedrooms) * BED_AREA
        + OrZero(f.bathrooms) * BATH_AREA

\* landArea = landWidth * landDepth, in square centimetres
LandArea(f) == OrZero(f.landWidth) * OrZero(f.landDepth)

\* Mutant of TooSmall: the 0.8 share of the land is not applied.
TooSmallWholeLand(f) ==
    125 * BaseArea(f) * UnitsPerMeter * UnitsPerMeter > 100 * LandArea(f)

\* requiredArea > landArea * 0.8 with requiredArea = baseArea * 1.25
TooSmall(f) ==
    125 * 10 * BaseArea(f) * UnitsPerMeter * UnitsPerMeter > 100 * 8 * LandArea(f)

Failure(at, message) == <<[stage |-> at, message |-> message]>>

\* convertVisionToWalls on a parsed structural scan: footprint walls when
\* there is a footprint of more than two points, room walls, then the pass
convertVisionToWalls(scan) ==
    LET fp == IF scan.footprint = <<>> THEN <<>> ELSE scan.footprint[1]
        fws == FootprintCandidates(fp)
    IN  NormalizationPass(Renumber(fws \o RoomCandidates(scan.rooms[1], 1, fws)), fws)

\* JSON.parse(extractJSON(text)) followed by structData.rooms.map(...):
\* <<scan>>, or <<>> when either throws
ParseStructural(body) ==
    IF body.parses /\ body.rooms # <<>> THEN <<body>> ELSE <<>>

\* JSON.parse(extractJSON(text)) and furnData.items || []
ParseFurniture(body) == IF body.parses THEN <<body>> ELSE <<>>

FormPool ==
    [apiKey : BOOLEAN,
     landWidth : {<<>>, <<875>>, <<1000>>, <<1200>>},
     landDepth : {<<750>>},
     bedrooms : {<<1>>, <<3>>},
     bathrooms : {<<1>>}]

\* The editor the import starts from: a wall just drawn, or the autosaved
\* wall with its door.
InitGenerate ==
    /\ \/ /\ walls = <<Wall(1, <<0, 0>>, <<100, 0>>, DRAWN_THICKNESS, FALSE)>>
          /\ objects = <<>>
          /\ selectedId = 1
          /\ past = <<[walls |-> <<>>, objects |-> <<>>, selectedId |-> 0]>>
          /\ nextId = 2
       \/ /\ walls = <<SavedWall>>
          /\ objects = <<SavedDoor>>
          /\ selectedId = 0
          /\ past = <<>>
          /\ nextId = 3
    /\ future = <<>>
    /\ mode = "select"
    /\ activeWallId = 0
    /\ movingWallId = 0
    /\ movingObjectId = 0
    /\ dragOffset = NoDrag
    /\ rooms = <<>>
    /\ viewerRooms = <<>>
    /\ NormIdle
    /\ ToolIdle
    /\ ExtIdle
    /\ form \in FormPool
    /\ gpc = "start"
    /\ base64Image = <<>>
    /\ structText = <<>>
    /\ structData = <<>>
    /\ furnText = <<>>
    /\ furnData = <<>>
    /\ layout = <<>>
    /\ generateError = <<>>
    /\ stage = "none"
    /\ retriesArg = 0
    /\ baseDelayArg = 0
    /\ retries = 0
    /\ baseDelay = 0
    /\ invocations = 0
    /\ waits = <<>>
    /\ errors = <<>>
    /\ thrown = <<>>
    /\ result = <<>>
    /\ pendingDelay = 0
    /\ rpc = "idle"
    /\ requests = <<>>
    /\ pc = "importing"

RetryUntouched ==
    UNCHANGED <<stage, retriesArg, baseDelayArg, retries, baseDelay, invocations,
                waits, errors, thrown, result, pendingDelay, rpc>>

\* generateLayout rejects with the error e: handleAIGenerate rethrows it.
Reject(e) ==
    /\ gpc' = "rejected"
    /\ generateError' = e
    /\ RetryUntouched

\* handleAIGenerate calls generateLayout: the key and feasibility checks,
\* then generateImage up to its request
GenerateLayout ==
    /\ gpc = "start"
    /\ IF ~form.apiKey
       THEN Reject(Failure("validation", Chars("API Key required")))
       ELSE IF TooSmall(form)
       THEN Reject(Failure("validation", Chars("Architectural Warning")))
       ELSE /\ EnterRetry("image", DEFAULT_RETRIES, IMAGE_BASE_DELAY)
            /\ gpc' = "image"
            /\ UNCHANGED generateError
    /\ UNCHANGED <<form, base64Image, structText, structData, furnText, furnData,
                   layout, requests>>
    /\ OthersUntouched

\* Mutant of ImageSettles: a failed image generation is passed over.
ImageSettlesPassedOver ==
    /\ gpc = "image"
    /\ Settled
    /\ base64Image' = IF rpc = "resolved" /\ result[1].body.image THEN <<"png">> ELSE <<>>
    /\ EnterRetry("structural", DEFAULT_RETRIES, DEFAULT_BASE_DELAY)
    /\ gpc' = "structural"
    /\ UNCHANGED <<form, structText, structData, furnText, furnData, layout,
                   generateError, requests>>
    /\ OthersUntouched

\* generateImage after its request settled, then the structural scan up to
\* its request
ImageSettles ==
    /\ gpc = "image"
    /\ Settled
    /\ IF rpc = "rejected"
       THEN /\ Reject(Failure("image", Chars("Image Generation Failed: ") \o thrown[1]))
            /\ UNCHANGED base64Image
       ELSE IF ~result[1].body.image
       THEN /\ Reject(Failure("image",
                      Chars("Image Generation Failed: Could not find image data in API response.")))
            /\ UNCHANGED base64Image
       ELSE /\ base64Image' = <<"png">>
            /\ EnterRetry("structural", DEFAULT_RETRIES, DEFAULT_BASE_DELAY)
            /\ gpc' = "structural"
            /\ UNCHANGED generateError
    /\ UNCHANGED <<form, structText, structData, furnText, furnData, layout, requests>>
    /\ OthersUntouched

\* Step 2A after its request settled, then step 2B up to its request
StructuralSettles ==
    /\ gpc = "structural"
    /\ Settled
    /\ IF rpc = "rejected"
       THEN /\ Reject(Failure("structural", Chars("Vision Analysis Failed: ") \o thrown[1]))
            /\ UNCHANGED <<structText, structData>>
       ELSE /\ structText' = <<result[1].body>>
            /\ IF ParseStructural(result[1].body) = <<>>
               THEN /\ Reject(Failure("structural", Chars("Vision Analysis Failed: ")))
                    /\ UNCHANGED structData
               ELSE /\ structData' = ParseStructural(result[1].body)
                    /\ EnterRetry("furniture", DEFAULT_RETRIES, DEFAULT_BASE_DELAY)
                    /\ gpc' = "furniture"
                    /\ UNCHANGED generateError
    /\ UNCHANGED <<form, base64Image, furnText, furnData, layout, requests>>
    /\ OthersUntouched

\* Step 2B after its request settled, then the conversion and the return
FurnitureSettles ==
    /\ gpc = "furniture"
    /\ Settled
    /\ IF rpc = "rejected"
       THEN /\ Reject(Failure("furniture", Chars("Vision Analysis Failed: ") \o thrown[1]))
            /\ UNCHANGED <<furnText, furnData, layout>>
       ELSE /\ furnText' = <<result[1].body>>
            /\ IF ParseFurniture(result[1].body) = <<>>
               THEN /\ Reject(Failure("furniture", Chars("Vision Analysis Failed: ")))
                    /\ UNCHANGED <<furnData, layout>>
               ELSE /\ furnData' = ParseFurniture(result[1].body)
                    /\ layout' = <<[walls |-> convertVisionToWalls(structData[1])]>>
                    /\ gpc' = "returned"
                    /\ UNCHANGED generateError
                    /\ RetryUntouched
    /\ UNCHANGED <<form, base64Image, structText, structData, requests>>
    /\ OthersUntouched

\* The walls of a layout with fresh ids from `first` on
FreshIds(ws, first) == [k \in 1..Len(ws) |-> [ws[k] EXCEPT !.id = first + k - 1]]

\* handleAIGenerate after generateLayout resolved: setHistory(prev => ({
\* ...prev, walls: [...prev.walls, ...newWalls], ... }), false)
Import ==
    /\ gpc = "returned"
    /\ Becomes(set(History,
                   [Present EXCEPT !.walls = walls \o FreshIds(layout[1].walls, nextId)],
                   FALSE))
    /\ nextId' = nextId + Len(layout[1].walls)
    /\ gpc' = "imported"
    /\ UNCHANGED <<mode, activeWallId, movingWallId, movingObjectId, dragOffset>>
    /\ UNCHANGED <<rooms, viewerRooms, pc>>
    /\ UNCHANGED normVars
    /\ UNCHANGED toolVars
    /\ UNCHANGED retryVars
    /\ UNCHANGED extVars
    /\ UNCHANGED <<form, base64Image, structText, structData, furnText, furnData,
                   layout, generateError>>

NextGenerate ==
    \/ GenerateLayout
    \/ Attempt
    \/ TimerFires
    \/ ImageSettles
    \/ StructuralSettles
    \/ FurnitureSettles
    \/ Import

SpecGenerate == InitGenerate /\ [][NextGenerate]_vars

Sent(name) == \E i \in 1..Len(requests) : requests[i] = name

\* image requests come first, then structural ones, then furniture ones
InOrder ==
    \A i, j \in 1..Len(requests) :
        i < j => <<requests[i], requests[j]>> \in
                    { <<"image", "image">>, <<"image", "structural">>,
                      <<"image", "furniture">>, <<"structural", "structural">>,
                      <<"structural", "furniture">>, <<"furniture", "furniture">> }

Converted == layout # <<>>

FailedAt(name) == generateError # <<>> /\ generateError[1].stage = name

\* Nothing was sent or converted after the step that failed.
NothingAfterFailure ==
    /\ generateError # <<>> => ~Converted /\ gpc = "rejected"
    /\ FailedAt("validation") => requests = <<>>
    /\ FailedAt("image") => ~Sent("structural") /\ ~Sent("furniture")
    /\ FailedAt("structural") => ~Sent("furniture")

\* C16: no structural request before image generation, retries included, has
\* succeeded; no furniture request before the structural response has been
\* received and parsed; after a failed step no request is sent and the
\* geometric conversion does not run.
C16_CallOrder ==
    /\ [](InOrder /\ NothingAfterFailure)
    /\ [](Sent("structural") => base64Image # <<>>)
    /\ [](Sent("furniture") => structText # <<>> /\ structData # <<>>)
    /\ [][generateError # <<>> => (requests' = requests /\ layout' = layout)]_vars

\* An import that retried the image and the structural request and returned.
C16_Witness ==
    /\ gpc = "returned"
    /\ Converted
    /\ Len(requests) >= 5
    /\ requests[1] = "image" /\ requests[2] = "image"
    /\ requests[3] = "structural" /\ requests[4] = "structural"
    /\ requests[Len(requests)] = "furniture"

\* A structural scan that failed after a retried image: no furniture request.
StructuralFailureWitness ==
    /\ FailedAt("structural")
    /\ base64Image # <<>>
    /\ Sent("structural")

\* 1.25 * (18 + 9 + 11 * bedrooms + 4 * bathrooms) > 0.8 * landWidth * landDepth,
\* both sides times 200000, with the land in centimetres
RequiredExceedsShare(f) ==
    250000 * (18 + 9 + 11 * OrZero(f.bedrooms) + 4 * OrZero(f.bathrooms))
        > 16 * (OrZero(f.landWidth) * OrZero(f.landDepth))

\* C17: when the required area exceeds 0.8 of the land area generateLayout
\* rejects with a validation error before any request is sent; when it does
\* not and an API key is present, the feasibility check does not reject.
C17_Feasibility ==
    gpc # "start" =>
        /\ RequiredExceedsShare(form) =>
              (gpc = "rejected" /\ FailedAt("validation") /\ requests = <<>>)
        /\ (~RequiredExceedsShare(form) /\ form.apiKey) => ~FailedAt("validation")

\* A key is present and the land is too small: rejected with the warning.
C17_Witness ==
    /\ form.apiKey
    /\ RequiredExceedsShare(form)
    /\ form.landWidth # <<>>
    /\ gpc = "rejected"
    /\ generateError = Failure("validation", Chars("Architectural Warning"))
    /\ requests = <<>>

\* Required area equal to the share of the land: the check passes.
FeasibleAtEqualityWitness ==
    /\ form.apiKey
    /\ form.landWidth = <<875>> /\ form.bedrooms = <<1>>
    /\ Sent("image")

\* A vision response that does not parse, or a structural response without
\* its footprint or rooms array, has been received.
SchemaViolation ==
    \/ structText # <<>> /\ ( \/ ~structText[1].parses
                              \/ structText[1].footprint = <<>>
                              \/ structText[1].rooms = <<>> )
    \/ furnText # <<>> /\ ~furnText[1].parses

\* C18: after a schema violation generateLayout does not return a layout,
\* and the editor's walls, objects and history change only by the import of
\* a layout generateLayout returned.
C18_SchemaViolationAborts ==
    /\ [](SchemaViolation => (~Converted /\ gpc \notin {"returned", "imported"}))
    /\ [][gpc # "returned" => UNCHANGED <<walls, objects, selectedId, past, future>>]_vars

\* An unparseable response, or a structural response without rooms, has
\* been received.
HardSchemaViolation ==
    \/ structText # <<>> /\ (~structText[1].parses \/ structText[1].rooms = <<>>)
    \/ furnText # <<>> /\ ~furnText[1].parses

\* What holds of the code: an unparseable response and a missing rooms array
\* reject the import and leave the editor alone.
ParseFailureAborts ==
    HardSchemaViolation =>
        /\ gpc = "rejected"
        /\ ~Converted
        /\ Present \in {[walls |-> <<SavedWall>>, objects |-> <<SavedDoor>>, selectedId |-> 0],
                        [walls |-> <<Wall(1, <<0, 0>>, <<100, 0>>, DRAWN_THICKNESS, FALSE)>>,
                         objects |-> <<>>, selectedId |-> 1]}
        /\ Len(past) <= 1
        /\ future = <<>>

\* A structural response without footprint was imported as walls.
NoFootprintImported ==
    /\ gpc = "imported"
    /\ structText[1].footprint = <<>>
    /\ Len(walls) > 1

-----------------------------------------------------------------------------
(* detectRooms as walls are added to a plan: the canvas recomputes          *)
(* rooms = detectRooms(state.walls) whenever the wall list changes.          *)

MaxAdded == 2

\* A 1 m square; the square with a divider met mid-span; an open chain
BasePlans ==
    { << <<<<0, 0>>, <<100, 0>>>>, <<<<100, 0>>, <<100, 100>>>>,
         <<<<100, 100>>, <<0, 100>>>>, <<<<0, 100>>, <<0, 0>>>> >>,
      << <<<<0, 0>>, <<100, 0>>>>, <<<<100, 0>>, <<100, 100>>>>,
         <<<<100, 100>>, <<0, 100>>>>, <<<<0, 100>>, <<0, 0>>>>,
         <<<<50, 0>>, <<50, 100>>>> >>,
      << <<<<0, 0>>, <<100, 0>>>>, <<<<100, 0>>, <<100, 100>>>>,
         <<<<100, 100>>, <<0, 100>>>> >> }

\* Walls that close no cycle with a base plan: a dead end from a side into
\* the room, a dead end from a corner outwards, a detached wall, a
\* zero-length wall on a corner, and a dead end that starts 3 cm from a
\* corner.
DeadEndPool ==
    { <<<<0, 50>>, <<40, 50>>>>,
      <<<<100, 100>>, <<150, 150>>>>,
      <<<<200, 0>>, <<250, 0>>>>,
      <<<<0, 0>>, <<0, 0>>>>,
      <<<<103, 0>>, <<150, 0>>>> }

SegmentsOf(ws) == [k \in 1..Len(ws) |-> <<ws[k].start, ws[k].end>>]

\* The list s with e put in after position at
InsertAt(s, at, e) == SubSeq(s, 1, at) \o <<e>> \o SubSeq(s, at + 1, Len(s))

InitLocal ==
    /\ \E plan \in BasePlans :
          /\ walls = AsWalls(plan)
          /\ rooms = detectRooms(AsWalls(plan))
    /\ viewerRooms = <<>>
    /\ NormIdle
    /\ ToolIdle
    /\ EditorIdle
    /\ AiIdle
    /\ ExtIdle
    /\ pc = "plan"

\* The wall list gains a wall and the canvas renders again.
AddWall ==
    /\ \E e \in DeadEndPool, at \in 0..Len(walls) :
          /\ e \notin Range(SegmentsOf(walls))
          /\ Cardinality({k \in 1..Len(walls) : SegmentsOf(walls)[k] \in DeadEndPool}) < MaxAdded
          /\ walls' = AsWalls(InsertAt(SegmentsOf(walls), at, e))
          /\ rooms' = detectRooms(walls')
    /\ UNCHANGED <<viewerRooms, pc>>
    /\ UNCHANGED normVars
    /\ UNCHANGED toolVars
    /\ UNCHANGED editorVars
    /\ UNCHANGED aiVars
    /\ UNCHANGED extVars

NextLocal == AddWall

SpecLocal == InitLocal /\ [][NextLocal]_vars

Areas(rs) == [k \in 1..Len(rs) |-> rs[k].area2]

\* Every room detected before is among the rooms detected after, counted by
\* area: no room is lost and no area changes.
RoomsKept ==
    \A a \in Range(Areas(rooms)) : Count(Areas(rooms'), a) >= Count(Areas(rooms), a)

EndpointsOf(ws) == {ws[k].start : k \in 1..Len(ws)} \cup {ws[k].end : k \in 1..Len(ws)}

\* The wall the step added
Added == CHOOSE e \in Range(SegmentsOf(walls')) : e \notin Range(SegmentsOf(walls))

AddedLast == SegmentsOf(walls') = Append(SegmentsOf(walls), Added)

\* An endpoint of the added wall is within EPSILON of an endpoint already
\* in the plan without being that point.
AddedNearVertex ==
    \E p \in {Added[1], Added[2]}, v \in EndpointsOf(walls) :
        p # v /\ LessThanEpsilon(distanceSq(p, v))

-----------------------------------------------------------------------------
(* Residual junctions in the output of the normalization pass *)

\* Endpoint e lies on, or within the snap distance of, the interior of wall
\* w without being an endpoint of w.
NearInterior(e, w) ==
    /\ e \notin {w.start, w.end}
    /\ ProjectionSeed(e, w.start, w.end) # <<>>

\* Walls v and w meet in one point that is interior to at least one of them.
CrossInside(v, w) ==
    LET r == sub(v.end, v.start)
        q == sub(w.end, w.start)
        det == r[1] * q[2] - r[2] * q[1]
        ac == sub(w.start, v.start)
        tn == ac[1] * q[2] - ac[2] * q[1]
        un == ac[1] * r[2] - ac[2] * r[1]
        within(n) == IF det > 0 THEN 0 <= n /\ n <= det ELSE det <= n /\ n <= 0
        strictly(n) == IF det > 0 THEN 0 < n /\ n < det ELSE det < n /\ n < 0
    IN  /\ det # 0
        /\ within(tn) /\ within(un)
        /\ strictly(tn) \/ strictly(un)

ResidualTJunction(ws) ==
    \E i, j \in 1..Len(ws) :
        i # j /\ \E e \in {ws[i].start, ws[i].end} : NearInterior(e, ws[j])

ResidualCrossing(ws) ==
    \E i, j \in 1..Len(ws) : i # j /\ CrossInside(ws[i], ws[j])

\* C20: in the output of the normalization pass no wall endpoint lies on, or
\* within the snap distance (0.30 m) of, the interior of another output wall
\* without being an endpoint of it, and no two output walls meet at a point
\* interior to either.
C20_NoResidualJunction ==
    pc = "normalized" => ~ResidualTJunction(finalWalls) /\ ~ResidualCrossing(finalWalls)

\* The pass on a 6 m wall and a perpendicular wall that stops 0.20 m short
\* of its midpoint returns both walls as they came in.
NearMissKept ==
    /\ pc = "normalized"
    /\ footprintWalls = <<>>
    /\ Spans(candidates) = {{<<0, 0>>, <<600, 0>>}, {<<300, 20>>, <<300, 300>>}}
    /\ Spans(finalWalls) = Spans(candidates)
    /\ ResidualTJunction(finalWalls)
    /\ ~ResidualCrossing(finalWalls)

-----------------------------------------------------------------------------
(* Divided rectangle scenario: detectRooms on a rectangle and one divider *)

DividerWidths == {100, 600}
DividerHeights == {100, 300}

\* Where the divider stands, as a distance from the rectangle's left side.
DividerOffsets(w) == {5, 20, 50, w - 20}

\* The four sides of the w x h rectangle at the origin with a divider from
\* its bottom side to its top side at x, the divider at position k of the
\* list, walked upwards or (flipped) downwards.
DividedRect(w, h, x, k, flipped) ==
    AsWalls(InsertAt(RectSides(<<0, 0>>, w, h), k - 1,
                     Flip(<<<<x, 0>>, <<x, h>>>>, flipped)))

InitDivider ==
    /\ \E w \in DividerWidths, h \in DividerHeights, k \in 1..5, flipped \in BOOLEAN :
          \E x \in DividerOffsets(w) : walls = DividedRect(w, h, x, k, flipped)
    /\ rooms = <<>>
    /\ viewerRooms = <<>>
    /\ NormIdle
    /\ ToolIdle
    /\ pc = "loaded"
    /\ EditorIdle
    /\ AiIdle
    /\ ExtIdle

NextDivider == Detect

SpecDivider == InitDivider /\ [][NextDivider]_vars

\* Point p lies on wall w at least 0.05 m from both of its endpoints.
OnSpanInside(p, w) ==
    /\ pointToSegmentDistanceSq(p, w.start, w.end) = 0
    /\ ~LessThanEpsilon(distanceSq(p, w.start))
    /\ ~LessThanEpsilon(distanceSq(p, w.end))

\* Wall i of the list is split at p.
SplitAt(ws, i, p) ==
    \E s \in Range(WallSegments(ws, i)) : p \in {s.start, s.end}

EveryJunctionSplit ==
    \A i, j \in 1..Len(walls) :
        i # j => \A p \in {walls[j].start, walls[j].end} :
                     OnSpanInside(p, walls[i]) => SplitAt(walls, i, p)

TwoRoomsOfTheRectangle ==
    /\ Len(rooms) = 2
    /\ rooms[1].area2 + rooms[2].area2 = 2 * (MaxX - MinX) * (MaxY - MinY)

\* C21: an endpoint lying on another wall's span at least 0.05 m from both
\* of that wall's endpoints splits that wall, and a rectangle with a divider
\* between the interiors of opposite sides is detected as exactly two rooms
\* whose areas sum to the rectangle's area.
C21_DividerSplitsRectangle ==
    pc = "rendered" => EveryJunctionSplit /\ TwoRoomsOfTheRectangle

\* The divider meets both sides at a parameter t in [0.05, 0.95].
CutAccepted ==
    \A i, j \in 1..Len(walls) :
        i # j => \A p \in {walls[j].start, walls[j].end} :
                     OnSpanInside(p, walls[i]) =>
                         LET pr == projectPointOnSegment(p, walls[i].start, walls[i].end)
                         IN  addCut(<<>>, pr.tN, pr.den) # <<>>

\* Both parts of the rectangle are larger than 0.1 square metres.
PartsDetectable ==
    \A x \in {p[1] : p \in WallPoints} \ {MinX, MaxX} :
        /\ AreaAccepted(2 * (x - MinX) * (MaxY - MinY))
        /\ AreaAccepted(2 * (MaxX - x) * (MaxY - MinY))

\* Where the code accepts the cut and neither part is a sliver, the walls
\* are split and two rooms are found.
DividerSplitsWhereCut ==
    (pc = "rendered" /\ CutAccepted /\ PartsDetectable) =>
        EveryJunctionSplit /\ TwoRoomsOfTheRectangle

\* The 6 m x 3 m rectangle with a divider 0.20 m from its left side comes
\* out as one room of 18 square metres.
DividerIgnored ==
    /\ pc = "rendered"
    /\ MaxX - MinX = 6 * UnitsPerMeter
    /\ MaxY - MinY = 3 * UnitsPerMeter
    /\ \E k \in 1..Len(walls) : walls[k].start[1] = 20 /\ walls[k].end[1] = 20
    /\ Len(rooms) = 1
    /\ rooms[1].area2 = 2 * 18 * UnitsPerMeter * UnitsPerMeter

-----------------------------------------------------------------------------
(* Which strategy fixes the scale *)

\* The AI-reported overall width in metres (15 when the response has none).
MetersHint ==
    IF data.overall_width_meters # 0 THEN data.overall_width_meters
    ELSE DEFAULT_WIDTH_METERS

\* Twice the shoelace area of the footprint polygon.
FootprintArea2 == Abs(ShoelaceSum(data.footprint))

\* The scale each strategy gives; a drawing without extent is left at the
\* default whichever strategy is chosen.
ScaleBySite ==
    IF DrawingLongest > 0 THEN Ratio(SiteLongest, DrawingLongest) ELSE Fallback
ScaleByArea == [num |-> 2 * targetArea, den |-> FootprintArea2, root |-> TRUE]
ScaleByHint ==
    IF DrawingLongest > 0 THEN Ratio(MetersHint, DrawingLongest) ELSE Fallback

AreaMatchingPossible ==
    targetArea # 0 /\ Len(data.footprint) > 2 /\ FootprintArea2 > 0

\* C22: the scale is fixed by the site dimensions when one is positive,
\* otherwise by area matching when a target area and a footprint polygon are
\* given and yield a scale, otherwise (a footprint of zero area included) by
\* the AI-reported width in metres over the drawing's longest side.
C22_ScalePriority ==
    pc = "scaled" =>
        scale[1] = IF SiteLongest > 0 THEN ScaleBySite
                   ELSE IF AreaMatchingPossible THEN ScaleByArea
                   ELSE ScaleByHint

\* The priority holds wherever the footprint given with a target area has a
\* positive area.
ScalePriorityOnProperFootprint ==
    (pc = "scaled"
     /\ (targetArea # 0 /\ Len(data.footprint) > 2 => FootprintArea2 > 0)) =>
        scale[1] = IF SiteLongest > 0 THEN ScaleBySite
                   ELSE IF AreaMatchingPossible THEN ScaleByArea
                   ELSE ScaleByHint

\* Without site dimensions, a footprint of three coincident points given
\* with a target area leaves the scale at the default although the response
\* reports a width and the rooms have extent.
HintPassedOver ==
    /\ pc = "scaled"
    /\ SiteLongest = 0
    /\ targetArea # 0
    /\ Len(data.footprint) > 2 /\ FootprintArea2 = 0
    /\ data.overall_width_meters # 0
    /\ DrawingLongest > 0
    /\ scale[1] = Fallback
    /\ scale[1] # ScaleByHint

\* Each of the three strategies fixes the scale of some import.
AreaMatchingUsed ==
    pc = "scaled" /\ SiteLongest = 0 /\ AreaMatchingPossible /\ scale[1] = ScaleByArea
HintUsed ==
    /\ pc = "scaled" /\ SiteLongest = 0 /\ targetArea # 0
    /\ Len(data.footprint) <= 2 /\ DrawingLongest > 0
    /\ scale[1] = ScaleByHint

-----------------------------------------------------------------------------
(* Docking of the against-the-wall kinds *)

IsBedItem == Includes(ToLowerCase(item[1].templateId), <<"b","e","d">>)
IsWardrobeItem ==
    Includes(ToLowerCase(item[1].templateId), <<"w","a","r","d","r","o","b","e">>)

\* The nearest physical wall is within the docking distance of 5 m.
WithinDockingDistance ==
    \E w \in NearestPhysicalWalls :
        pointToSegmentDistanceSq(worldPos, w.start, w.end)
            < BED_THRESHOLD * BED_THRESHOLD

\* C23: a bed or a wardrobe placed where the nearest physical wall is within
\* the docking distance is put at the wall projection plus normal *
\* (depth/2 + thickness/2) on the cursor's side, rotated to facingAngle - 90;
\* the docking wall is a nearest physical wall, never a virtual one.
C23_BedsAndWardrobesDocked ==
    (pc = "aligned" /\ (IsBedItem \/ IsWardrobeItem) /\ WithinDockingDistance)
        => \E w \in NearestPhysicalWalls : DockedAt(w, alignedItem[1])

\* Beds are docked so on every wall of positive length, with a virtual wall
\* nearer than the docking wall or not.
BedsDocked ==
    (pc = "aligned" /\ IsBedItem /\ WithinDockingDistance
     /\ \A w \in NearestPhysicalWalls : w.start # w.end)
        => \E w \in NearestPhysicalWalls : DockedAt(w, alignedItem[1])

\* A wardrobe dropped 0.50 m from a proper wall stays under the cursor with
\* its rotation untouched.
WardrobeFollowsCursor ==
    /\ pc = "aligned"
    /\ IsWardrobeItem
    /\ WithinDockingDistance
    /\ \A w \in NearestPhysicalWalls : w.start # w.end
    /\ <<alignedItem[1].x, alignedItem[1].y>> = worldPos
    /\ alignedItem[1].rotation = item[1].rotation
    /\ ~\E w \in NearestPhysicalWalls : DockedAt(w, alignedItem[1])

\* A bed docked on a physical wall although a virtual wall is nearer.
BedPassesVirtualWall ==
    /\ pc = "aligned"
    /\ IsBedItem
    /\ \E v \in Range(walls), w \in NearestPhysicalWalls :
          /\ v.isVirtual
          /\ w.start # w.end
          /\ pointToSegmentDistanceSq(worldPos, v.start, v.end)
                < pointToSegmentDistanceSq(worldPos, w.start, w.end)
          /\ DockedAt(w, alignedItem[1])

-----------------------------------------------------------------------------
(* Nightstand pass of AIService.convertVisionToWalls:                       *)
(* src/src/utils/geometry.ts lines 1512-1541.  Rotations are multiples of   *)
(* 90 degrees, so that the cosine and the sine are 0, 1 or -1.              *)

MaxItems == 3
\* distance(item, b) < 2.0
BED_REACH == 200
\* the gap left between the bed and the nightstand: 0.05
SIDE_GAP == 5

Placed(templateId, x, y, width, depth, rotation) ==
    [templateId |-> Chars(templateId), x |-> x, y |-> y, width |-> width,
     depth |-> depth, rotation |-> rotation]

IsNightstand(f) == Includes(f.templateId, Chars("nightstand"))
IsBed(f) == Includes(f.templateId, Chars("bed"))

\* Math.cos and Math.sin of an angle in degrees
CosDeg(r) == LET a == r % 360 IN IF a = 0 THEN 1 ELSE IF a = 180 THEN -1 ELSE 0
SinDeg(r) == LET a == r % 360 IN IF a = 90 THEN 1 ELSE IF a = 270 THEN -1 ELSE 0

\* furnitureBuffer.find(b => b.templateId.includes('bed') && distance(item, b) < 2.0)
FindBed(buffer, f) ==
    LET near(k) == /\ IsBed(buffer[k])
                   /\ Within(<<f.x, f.y>>, <<buffer[k].x, buffer[k].y>>, BED_REACH)
    IN  IF \E k \in 1..Len(buffer) : near(k)
        THEN <<buffer[CHOOSE k \in 1..Len(buffer) :
                         near(k) /\ \A m \in 1..(k - 1) : ~near(m)]>>
        ELSE <<>>

\* The nightstand moved beside the headboard of the bed it was given.
Nest(f, bed) ==
    LET cosR == CosDeg(bed.rotation)
        sinR == SinDeg(bed.rotation)
        vWidth == <<cosR, -sinR>>
        vDepth == <<sinR, cosR>>
        toItem == <<f.x - bed.x, f.y - bed.y>>
        sideProjection == toItem[1] * vWidth[1] + toItem[2] * vWidth[2]
        side == IF sideProjection > 0 THEN 1 ELSE -1
        widthShift == side * ((bed.width \div 2) + (f.width \div 2) + SIDE_GAP)
        headboardShift == -(bed.depth \div 2) + (f.depth \div 2)
    IN  [f EXCEPT !.x = bed.x + vWidth[1] * widthShift + vDepth[1] * headboardShift,
                  !.y = bed.y + vWidth[2] * widthShift + vDepth[2] * headboardShift,
                  !.rotation = bed.rotation]

\* furnitureBuffer.forEach(item => ...): the items are changed in place, in
\* buffer order; buffer holds the items already handled as they are now.
RECURSIVE NestingPass(_, _)
NestingPass(buffer, k) ==
    IF k > Len(buffer) THEN buffer
    ELSE LET f == buffer[k]
             bed == FindBed(buffer, f)
         IN  NestingPass(IF IsNightstand(f) /\ bed # <<>>
                         THEN [buffer EXCEPT ![k] = Nest(f, bed[1])]
                         ELSE buffer,
                         k + 1)

\* A double bed, a single bed turned by 90 degrees beside it, nightstands on
\* both sides of the double bed, one of them nearer to the single bed, a
\* nightstand far from every bed, and a sofa.
PlacedPool ==
    { Placed("bed-double", 300, 300, 160, 200, 0),
      Placed("bed-single", 450, 300, 100, 200, 90),
      Placed("nightstand", 200, 220, 50, 40, 0),
      Placed("nightstand", 400, 220, 50, 40, 0),
      Placed("nightstand", 420, 250, 50, 40, 180),
      Placed("nightstand", 900, 900, 50, 40, 0),
      Placed("sofa-3", 100, 600, 200, 90, 0) }

InitNest ==
    /\ furnitureBuffer \in DistinctListsOver(PlacedPool, MaxItems)
    /\ finalFurniture = <<>>
    /\ walls = <<>>
    /\ RoomsIdle
    /\ NormIdle
    /\ ToolIdle
    /\ EditorIdle
    /\ AiIdle
    /\ ViewerIdle
    /\ ConcIdle
    /\ TraceIdle
    /\ pc = "buffered"

\* The pass, and furnitureBuffer.forEach(f => finalFurniture.push(f))
NightstandPass ==
    /\ pc = "buffered"
    /\ finalFurniture' = NestingPass(furnitureBuffer, 1)
    /\ pc' = "nested"
    /\ UNCHANGED furnitureBuffer
    /\ UNCHANGED viewerVars
    /\ UNCHANGED concVars
    /\ UNCHANGED traceVars
    /\ UNCHANGED roomVars
    /\ UNCHANGED normVars
    /\ UNCHANGED toolVars
    /\ UNCHANGED editorVars
    /\ UNCHANGED aiVars

NextNest == NightstandPass

SpecNest == InitNest /\ [][NextNest]_vars

\* The beds within 2 m of item k of the buffer, and the nearest of them.
BedsInReach(k) ==
    {b \in 1..Len(furnitureBuffer) :
        /\ IsBed(furnitureBuffer[b])
        /\ Within(<<furnitureBuffer[k].x, furnitureBuffer[k].y>>,
                  <<furnitureBuffer[b].x, furnitureBuffer[b].y>>, BED_REACH)}

DistanceToBedSq(k, b) ==
    distanceSq(<<furnitureBuffer[k].x, furnitureBuffer[k].y>>,
               <<furnitureBuffer[b].x, furnitureBuffer[b].y>>)

NearestBeds(k) ==
    {b \in BedsInReach(k) :
        \A c \in BedsInReach(k) : DistanceToBedSq(k, b) <= DistanceToBedSq(k, c)}

Nightstands == {k \in 1..Len(furnitureBuffer) : IsNightstand(furnitureBuffer[k])}

\* The offset of final item k from bed b in the bed's own frame: along its
\* width axis and along its depth axis.
LocalOffset(k, b) ==
    LET bed == furnitureBuffer[b]
        off == <<finalFurniture[k].x - bed.x, finalFurniture[k].y - bed.y>>
    IN  <<off[1] * CosDeg(bed.rotation) - off[2] * SinDeg(bed.rotation),
          off[1] * SinDeg(bed.rotation) + off[2] * CosDeg(bed.rotation)>>

\* Final item k stands beside the headboard edge of bed b with its rotation.
BesideHeadboard(k, b) ==
    LET bed == furnitureBuffer[b]
        f == finalFurniture[k]
    IN  /\ f.rotation = bed.rotation
        /\ Abs(LocalOffset(k, b)[1]) = (bed.width \div 2) + (f.width \div 2) + SIDE_GAP
        /\ LocalOffset(k, b)[2] = -(bed.depth \div 2) + (f.depth \div 2)

AttachedToNearestBed ==
    \A k \in Nightstands :
        BedsInReach(k) # {} => \E b \in NearestBeds(k) : BesideHeadboard(k, b)

MirroredInPairs ==
    \A i, j \in Nightstands :
        i # j => \A b \in NearestBeds(i) \cap NearestBeds(j) :
                    /\ LocalOffset(i, b)[1] = -LocalOffset(j, b)[1]
                    /\ LocalOffset(i, b)[2] = LocalOffset(j, b)[2]
                    /\ <<finalFurniture[i].x, finalFurniture[i].y>>
                           # <<finalFurniture[j].x, finalFurniture[j].y>>

\* C24: every nightstand with a bed within 2 m stands beside the headboard
\* of its nearest bed with that bed's rotation, and two nightstands of the
\* same bed stand at mirror-image positions on opposite sides of it, never
\* at the same position.
C24_NightstandsMirrored ==
    pc = "nested" => AttachedToNearestBed /\ MirroredInPairs

\* The side of bed b on which buffer item k was before the pass.
SideOf(k, b) ==
    LET bed == furnitureBuffer[b]
        toItem == <<furnitureBuffer[k].x - bed.x, furnitureBuffer[k].y - bed.y>>
    IN  IF toItem[1] * CosDeg(bed.rotation) - toItem[2] * SinDeg(bed.rotation) > 0
        THEN 1 ELSE -1

\* With one bed in reach and the two nightstands on different sides of it
\* before the pass, the claim's placement holds.
MirroredFromOppositeSides ==
    pc = "nested" =>
        /\ \A k \in Nightstands :
              Cardinality(BedsInReach(k)) = 1 =>
                  \E b \in BedsInReach(k) : BesideHeadboard(k, b)
        /\ \A i, j \in Nightstands :
              (i # j /\ Cardinality(BedsInReach(i) \cup BedsInReach(j)) = 1) =>
                  \A b \in BedsInReach(i) \cap BedsInReach(j) :
                      SideOf(i, b) # SideOf(j, b) =>
                          /\ LocalOffset(i, b)[1] = -LocalOffset(j, b)[1]
                          /\ LocalOffset(i, b)[2] = LocalOffset(j, b)[2]

\* Two nightstands the response put on the same side of the only bed end up
\* at one and the same position.
NightstandsCollide ==
    /\ pc = "nested"
    /\ \E i, j \in Nightstands :
          /\ i # j
          /\ \E b \in 1..Len(furnitureBuffer) :
                BedsInReach(i) = {b} /\ BedsInReach(j) = {b}
          /\ <<finalFurniture[i].x, finalFurniture[i].y>>
                = <<finalFurniture[j].x, finalFurniture[j].y>>

\* A nightstand went to the bed listed first although another bed is nearer.
FartherBedTaken ==
    /\ pc = "nested"
    /\ \E k \in Nightstands :
          /\ BedsInReach(k) # {}
          /\ ~\E b \in NearestBeds(k) : BesideHeadboard(k, b)
          /\ \E b \in BedsInReach(k) : BesideHeadboard(k, b)

-----------------------------------------------------------------------------
(* Openings in the 3D wall geometry: SegmentedWall and WallObjectMesh       *)
(* (src/unnamed/part_010), fed by the property panel (RightSidebar) through *)
(* Layout.updateObject and updateGlobalWallHeight.  Heights in centimetres. *)

\* wall.height - 0.1: the most an opening's height may be
HEAD_ROOM == 10
\* a window higher than 1.8 m is a balcony door and starts from the ground
BALCONY_HEIGHT == 180
\* updateGlobalWallHeight clamps to 2.5 .. 3.3
MIN_WALL_HEIGHT == 250
MAX_WALL_HEIGHT == 330
\* state.globalWallHeight of a new session, WALL_HEIGHT of imported walls
DEFAULT_WALL_HEIGHT == 280
IMPORTED_WALL_HEIGHT == 240

\* The object handleDrop creates for a type.
DroppedObject(type) ==
    [type |-> type,
     height |-> IF type = "window" THEN 120 ELSE 210,
     offset |-> IF type = "window" THEN 90 ELSE 0]

\* Values typed into the panel's number inputs.
HeightInputs == {-50, 0, 120, 180, 190, 240, 300}
OffsetInputs == {0, 90, 150, 200, 300}
WallHeightInputs == {200, 250, 300, 400}

\* finalObjHeight, finalObjOffset, sillHeight and headerHeight of
\* SegmentedWall (finalHeight and finalOffset of WallObjectMesh are the same).
EffectiveOpening(obj, height) ==
    LET finalObjHeight == Min(obj.height, height - HEAD_ROOM)
        isBalconyStyle == obj.type = "window" /\ finalObjHeight > BALCONY_HEIGHT
        finalObjOffset == IF isBalconyStyle \/ obj.type = "door" THEN 0 ELSE obj.offset
    IN  [height |-> finalObjHeight,
         offset |-> finalObjOffset,
         sillHeight |-> finalObjOffset,
         headerHeight |-> height - (finalObjOffset + finalObjHeight)]

InitViewer ==
    /\ activeTab = "layout"
    /\ wallHeight \in {DEFAULT_WALL_HEIGHT, IMPORTED_WALL_HEIGHT}
    /\ wallObject \in {<<DroppedObject(type)>> : type \in {"door", "window", "opening"}}
    /\ cutout = <<>>
    /\ NestIdle
    /\ ConcIdle
    /\ TraceIdle
    /\ walls = <<>>
    /\ RoomsIdle
    /\ NormIdle
    /\ ToolIdle
    /\ EditorIdle
    /\ AiIdle
    /\ pc = "viewer"

ViewerFrame ==
    /\ UNCHANGED pc
    /\ UNCHANGED nestVars
    /\ UNCHANGED concVars
    /\ UNCHANGED traceVars
    /\ UNCHANGED roomVars
    /\ UNCHANGED normVars
    /\ UNCHANGED toolVars
    /\ UNCHANGED editorVars
    /\ UNCHANGED aiVars

\* The panel's Height and Elevation inputs: updateObject(id, {height}) and
\* updateObject(id, {offset}); the panel is shown on the layout tab.
UpdateObject ==
    /\ activeTab = "layout"
    /\ \/ \E h \in HeightInputs : wallObject' = <<[wallObject[1] EXCEPT !.height = h]>>
       \/ \E o \in OffsetInputs : wallObject' = <<[wallObject[1] EXCEPT !.offset = o]>>
    /\ UNCHANGED <<activeTab, wallHeight, cutout>>
    /\ ViewerFrame

\* updateGlobalWallHeight(height), from the panel or from the 3D viewer's
\* settings; the viewer, when shown, builds the wall again.
UpdateGlobalWallHeight ==
    /\ \E height \in WallHeightInputs :
          LET h == Min(MAX_WALL_HEIGHT, Max(MIN_WALL_HEIGHT, height))
          IN  /\ wallHeight' = h
              /\ cutout' = IF activeTab = "3d"
                           THEN <<EffectiveOpening(wallObject[1], h)>>
                           ELSE cutout
    /\ UNCHANGED <<activeTab, wallObject>>
    /\ ViewerFrame

\* setActiveTab: the 3D viewer is mounted and builds the wall, or unmounted.
SetActiveTab ==
    /\ \E tab \in {"layout", "3d"} :
          /\ tab # activeTab
          /\ activeTab' = tab
          /\ cutout' = IF tab = "3d"
                       THEN <<EffectiveOpening(wallObject[1], wallHeight)>>
                       ELSE <<>>
    /\ UNCHANGED <<wallHeight, wallObject>>
    /\ ViewerFrame

NextViewer == UpdateObject \/ UpdateGlobalWallHeight \/ SetActiveTab

SpecViewer == InitViewer /\ [][NextViewer]_vars

\* C25: whenever the 3D geometry of the wall is built, the opening used has
\* offset + height <= wall.height, for every stored height and every stored
\* offset >= 0.
C25_OpeningBelowWallTop ==
    (cutout # <<>> /\ wallObject[1].offset >= 0) =>
        cutout[1].offset + cutout[1].height <= wallHeight

\* What the construction does ensure: the height used leaves 0.1 m of wall,
\* and doors and balcony-style windows start from the floor.
HeightClamped ==
    cutout # <<>> =>
        /\ cutout[1].height <= wallHeight - HEAD_ROOM
        /\ (wallObject[1].type = "door" => cutout[1].offset = 0)
        /\ (cutout[1].offset = 0 => cutout[1].offset + cutout[1].height <= wallHeight)

\* A window raised to 2.0 m in the panel is built reaching above the top of
\* a 2.8 m wall.
WindowAboveWallTop ==
    /\ cutout # <<>>
    /\ wallObject[1] = [type |-> "window", height |-> 120, offset |-> 200]
    /\ wallHeight = DEFAULT_WALL_HEIGHT
    /\ cutout[1].offset + cutout[1].height = 320
    /\ cutout[1].headerHeight < 0

-----------------------------------------------------------------------------
(* The same wall set written in another way: detectRooms on a wall list     *)
(* whose walls are moved within the list or turned end for end              *)

MaxPermuted == 5

\* A 1 m square with a dead end run inwards from the middle of a side; a 1 m
\* square with a divider; a 3 m square with a triangle inside it that
\* touches it at one corner only.
RewritePlans ==
    { << <<<<0, 0>>, <<100, 0>>>>, <<<<100, 0>>, <<100, 100>>>>,
         <<<<100, 100>>, <<0, 100>>>>, <<<<0, 100>>, <<0, 0>>>>,
         <<<<50, 0>>, <<50, 40>>>> >>,
      << <<<<0, 0>>, <<100, 0>>>>, <<<<100, 0>>, <<100, 100>>>>,
         <<<<100, 100>>, <<0, 100>>>>, <<<<0, 100>>, <<0, 0>>>>,
         <<<<50, 0>>, <<50, 100>>>> >>,
      << <<<<0, 0>>, <<300, 0>>>>, <<<<300, 0>>, <<300, 300>>>>,
         <<<<300, 300>>, <<0, 300>>>>, <<<<0, 300>>, <<0, 0>>>>,
         <<<<0, 0>>, <<200, 100>>>>, <<<<200, 100>>, <<100, 200>>>>,
         <<<<100, 200>>, <<0, 0>>>> >> }

InitRewrite ==
    /\ \E plan \in RewritePlans :
          /\ walls = AsWalls(plan)
          /\ rooms = detectRooms(AsWalls(plan))
    /\ viewerRooms = <<>>
    /\ NormIdle
    /\ ToolIdle
    /\ EditorIdle
    /\ AiIdle
    /\ ExtIdle
    /\ pc = "plan"

\* The wall list becomes ws and the canvas detects the rooms again.
Rewritten(ws) ==
    /\ walls' = ws
    /\ rooms' = detectRooms(ws)
    /\ UNCHANGED <<viewerRooms, pc>>
    /\ UNCHANGED normVars
    /\ UNCHANGED toolVars
    /\ UNCHANGED editorVars
    /\ UNCHANGED aiVars
    /\ UNCHANGED extVars

\* The first wall is moved to the end of the list.
RotateList ==
    /\ Len(walls) > 1
    /\ Rewritten(Append(Tail(walls), Head(walls)))

\* The first two walls change places.
SwapFirstTwo ==
    /\ Len(walls) > 1
    /\ Len(walls) <= MaxPermuted
    /\ Rewritten(<<walls[2], walls[1]>> \o SubSeq(walls, 3, Len(walls)))

\* One wall is turned end for end.
SwapEnds ==
    \E k \in 1..Len(walls) :
        Rewritten([walls EXCEPT ![k] = [@ EXCEPT !.start = walls[k].end,
                                                 !.end = walls[k].start]])

NextRewrite == RotateList \/ SwapFirstTwo \/ SwapEnds

SpecRewrite == InitRewrite /\ [][NextRewrite]_vars

\* The rooms as a set: id, area and vertex set of each.
RoomSet(rs) ==
    {[id |-> rs[k].id, area2 |-> rs[k].area2, vertices |-> Range(rs[k].path)] :
        k \in 1..Len(rs)}

\* C26: moving walls within the list or swapping start and end of a wall
\* leaves the set of rooms as it was: same ids, same areas, same vertex sets.
C26_WritingIndependent ==
    [][NextRewrite => RoomSet(rooms') = RoomSet(rooms)]_vars

\* The areas alone, as a set.
AreaSet(rs) == {rs[k].area2 : k \in 1..Len(rs)}

AreasIndependent ==
    [][NextRewrite => AreaSet(rooms') = AreaSet(rooms)]_vars

\* Every room of the plan with the divider is the same however it is written.
DividedPlanIndependent ==
    [][(NextRewrite /\ \E k \in 1..Len(walls) :
            {walls[k].start, walls[k].end} = {<<50, 0>>, <<50, 100>>})
        => RoomSet(rooms') = RoomSet(rooms)]_vars

-----------------------------------------------------------------------------
(* Two generateLayout calls in flight.  The file holds two versions of       *)
(* AIService; both pass the constraints of a call to generateImage through   *)
(* the static field _lastConstraints (src/src/utils/geometry.ts:282, 942).   *)
(* The earlier version reads the field inside the retried operation (239),   *)
(* the later one reads it once before the first attempt (860).  A call runs  *)
(* without interruption up to its first await; awaits of different calls     *)
(* interleave.                                                               *)

Callers == {1, 2}

\* { landWidth, landDepth, targetArea: requiredArea }, the area in hundredths
ConstraintsOf(f) ==
    [landWidth |-> OrZero(f.landWidth), landDepth |-> OrZero(f.landDepth),
     targetArea |-> 125 * BaseArea(f)]

\* Determine Aspect Ratio: ratio = landWidth / landDepth against 1.4, 1.1,
\* 0.7 and 0.9
AspectRatio(c) ==
    IF c # <<>> /\ c[1].landWidth # 0 /\ c[1].landDepth # 0
    THEN LET w == c[1].landWidth
             d == c[1].landDepth
         IN  IF 10 * w > 14 * d THEN "16:9"
             ELSE IF 10 * w > 11 * d THEN "4:3"
             ELSE IF 10 * w < 7 * d THEN "9:16"
             ELSE IF 10 * w < 9 * d THEN "3:4"
             ELSE "1:1"
    ELSE "1:1"

\* IMAGE_GEN_PROMPT_TEMPLATE(userPrompt, constraints): the objective names
\* the land of the form; SITE_CONSTRAINTS is present when constraints is
ImagePrompt(f, c) ==
    [objective |-> <<OrZero(f.bedrooms), OrZero(f.bathrooms),
                     OrZero(f.landWidth), OrZero(f.landDepth)>>,
     site |-> IF c = <<>> THEN <<>>
              ELSE <<[landWidth |-> c[1].landWidth, landDepth |-> c[1].landDepth]>>]

\* What imgModel.generateContent is given: the prompt and, in the later
\* version, the aspect ratio of the generation config
ImageRequest(caller, prompt, ratio) ==
    [caller |-> caller, prompt |-> prompt, aspectRatio |-> ratio]

\* The request of a retry: the earlier version evaluates
\* IMAGE_GEN_PROMPT_TEMPLATE(userPrompt, this._lastConstraints) again, the
\* later one sends the finalPrompt built before the first attempt
RetriedRequest(caller) ==
    LET call == inFlight[caller]
    IN  IF aiVariant = "earlier"
        THEN ImageRequest(caller, ImagePrompt(call.form, lastConstraints), <<>>)
        ELSE ImageRequest(caller, call.finalPrompt, call.aspectRatio)

\* Forms that pass the feasibility check, on sites of different shapes
ConcurrentForms ==
    {f \in FormPool : f.apiKey /\ ~TooSmall(f) /\ f.bedrooms = <<1>>}

InitConcurrent ==
    /\ walls = <<>>
    /\ rooms = <<>>
    /\ viewerRooms = <<>>
    /\ NormIdle
    /\ ToolIdle
    /\ EditorIdle
    /\ AiIdle
    /\ NestIdle
    /\ ViewerIdle
    /\ TraceIdle
    /\ aiVariant \in {"earlier", "later"}
    /\ lastConstraints = <<>>
    /\ inFlight = [c \in Callers |-> [cpc |-> "idle"]]
    /\ imageRequests = <<>>
    /\ pc = "concurrent"

ConcurrentFrame ==
    /\ UNCHANGED <<walls, rooms, viewerRooms, pc, aiVariant>>
    /\ UNCHANGED normVars
    /\ UNCHANGED toolVars
    /\ UNCHANGED editorVars
    /\ UNCHANGED aiVars
    /\ UNCHANGED nestVars
    /\ UNCHANGED viewerVars
    /\ UNCHANGED traceVars

\* generateLayout(data, apiKey) up to the first await: the feasibility
\* check, mockOrRealImplementation storing the constraints, generateImage
\* reading them, and the first invocation of the operation by
\* retryWithBackoff(operation, 3, 5000)
StartImport(caller) ==
    /\ inFlight[caller].cpc = "idle"
    /\ \E f \in ConcurrentForms :
          LET own == <<ConstraintsOf(f)>>
              ratio == IF aiVariant = "earlier" THEN <<>>
                       ELSE <<AspectRatio(own)>>
              prompt == ImagePrompt(f, own)
          IN  /\ lastConstraints' = own
              /\ inFlight' = [inFlight EXCEPT ![caller] =
                     [cpc |-> "pending", form |-> f, constraints |-> own[1],
                      finalPrompt |-> prompt, aspectRatio |-> ratio,
                      retries |-> DEFAULT_RETRIES, baseDelay |-> IMAGE_BASE_DELAY,
                      pendingDelay |-> 0]]
              /\ imageRequests' = Append(imageRequests,
                                         ImageRequest(caller, prompt, ratio))
    /\ ConcurrentFrame

\* The pending request settles: the image arrives and the call goes on to
\* the vision step, or the error is caught by retryWithBackoff
ImageRequestSettles(caller) ==
    /\ inFlight[caller].cpc = "pending"
    /\ \/ inFlight' = [inFlight EXCEPT ![caller].cpc = "vision"]
       \/ \E msg \in ServiceErrors :
             LET c == catchError(msg, inFlight[caller].retries,
                                 inFlight[caller].baseDelay)
             IN  inFlight' = [inFlight EXCEPT ![caller] =
                     IF c.kind = "wait"
                     THEN [@ EXCEPT !.cpc = "waiting", !.pendingDelay = c.delay]
                     ELSE [@ EXCEPT !.cpc = "rejected"]]
    /\ UNCHANGED <<lastConstraints, imageRequests>>
    /\ ConcurrentFrame

\* The timer of a waiting call fires: retryWithBackoff(operation,
\* retries - 1, delay) invokes the operation again
ImageRetried(caller) ==
    /\ inFlight[caller].cpc = "waiting"
    /\ inFlight' = [inFlight EXCEPT ![caller] =
           [@ EXCEPT !.cpc = "pending", !.retries = @ - 1,
                     !.baseDelay = inFlight[caller].pendingDelay]]
    /\ imageRequests' = Append(imageRequests, RetriedRequest(caller))
    /\ UNCHANGED lastConstraints
    /\ ConcurrentFrame

NextConcurrent ==
    \E caller \in Callers :
        \/ StartImport(caller)
        \/ ImageRequestSettles(caller)
        \/ ImageRetried(caller)

SpecConcurrent == InitConcurrent /\ [][NextConcurrent]_vars

\* The k-th request carries the site of the call that sent it.
BuiltFromOwnCall(k) ==
    LET r == imageRequests[k]
        own == inFlight[r.caller].constraints
    IN  r.prompt.site = <<[landWidth |-> own.landWidth,
                           landDepth |-> own.landDepth]>>

\* C27: every image request of a generateLayout call, the first attempt and
\* every retry after a backoff wait, is built from the constraints of its
\* own call, also while another call with other constraints is in flight.
C27_ImportsIsolated ==
    \A k \in 1..Len(imageRequests) : BuiltFromOwnCall(k)

\* The first request of each call is built from its own constraints in both
\* versions, and in the later version so is every retry, with the aspect
\* ratio of its own site.
IsolatedUnlessReadOnRetry ==
    \A k \in 1..Len(imageRequests) :
        LET r == imageRequests[k]
            first == \A j \in 1..(k - 1) : imageRequests[j].caller # r.caller
        IN  (first \/ aiVariant = "later") =>
                /\ BuiltFromOwnCall(k)
                /\ aiVariant = "later" =>
                      r.aspectRatio = <<AspectRatio(<<inFlight[r.caller].constraints>>)>>

\* A retry of the later version sent while the field holds the constraints
\* of the other call.
RetryWhileFieldOverwritten ==
    /\ aiVariant = "later"
    /\ \E k \in 2..Len(imageRequests) :
          LET r == imageRequests[k]
          IN  /\ \E j \in 1..(k - 1) : imageRequests[j].caller = r.caller
              /\ \E j \in 1..(k - 1) : imageRequests[j].caller # r.caller
              /\ lastConstraints # <<inFlight[r.caller].constraints>>
              /\ inFlight[r.caller].constraints.landWidth
                     # lastConstraints[1].landWidth

\* A retry of the earlier version that carries the site of the other call.
RetryBuiltFromOtherCall ==
    /\ aiVariant = "earlier"
    /\ \E k \in 2..Len(imageRequests) : ~BuiltFromOwnCall(k)

-----------------------------------------------------------------------------
(* Dragging a wall endpoint in select mode (src/src/hooks/useCanvas.ts       *)
(* 867-920) on SpecEditor.                                                   *)

\* An endpoint of a wall is being dragged.
EndpointDragged == movingWallId # 0 /\ dragOffset.kind \in {"start", "end"}

\* The dragged endpoint of the moving wall before the move
DraggedFrom ==
    LET w == FindById(walls, movingWallId)[1]
    IN  IF dragOffset.kind = "start" THEN w.start ELSE w.end

\* The step to the pointer p puts the dragged endpoint, and every endpoint
\* that coincided with it, at the snapped pointer and leaves the other end
\* of the dragged wall where it was.
LandsAtSnap(p) ==
    LET snappedTo == snapToVertex(p, DEFAULT_THRESHOLD, walls)
    IN  \A k \in 1..Len(walls) :
            /\ walls[k].start = DraggedFrom => walls'[k].start = snappedTo
            /\ walls[k].end = DraggedFrom => walls'[k].end = snappedTo
            /\ walls[k].id = movingWallId /\ dragOffset.kind = "start"
                   /\ walls[k].end # DraggedFrom => walls'[k].end = walls[k].end
            /\ walls[k].id = movingWallId /\ dragOffset.kind = "end"
                   /\ walls[k].start # DraggedFrom => walls'[k].start = walls[k].start

\* The snapped pointer lies within 0.05 m of the dragged wall as it was and
\* farther than 0.05 m from both of its ends.
SnapsOntoOldBody(p) ==
    LET snappedTo == snapToVertex(p, DEFAULT_THRESHOLD, walls)
        w == FindById(walls, movingWallId)[1]
        eps == (EPSILON_NUM * UnitsPerMeter) \div EPSILON_DEN
    IN  /\ pointToSegmentDistanceSq(snappedTo, w.start, w.end) < eps * eps
        /\ distanceSq(snappedTo, w.start) > eps * eps
        /\ distanceSq(snappedTo, w.end) > eps * eps

\* C28: while a wall endpoint is dragged, after each mouse-move the dragged
\* endpoint and every endpoint that coincided with it are at the position
\* snapToVertex returns for the pointer and the wall's other endpoint is
\* unchanged, whatever the size and direction of the step.
C28_EndpointLandsAtSnap ==
    [][\A p \in PointerPool :
          (EndpointDragged /\ FindById(walls, movingWallId) # <<>> /\ MouseMoveTo(p))
              => LandsAtSnap(p)]_vars

\* The same for the steps whose snapped position is not on the body of the
\* wall as it was before the step.
LandsUnlessOntoOldBody ==
    [][\A p \in PointerPool :
          (EndpointDragged /\ FindById(walls, movingWallId) # <<>> /\ MouseMoveTo(p)
              /\ ~SnapsOntoOldBody(p))
              => LandsAtSnap(p)]_vars

\* The start of the wall (0,0)-(1,0), dragged to the pointer (0.5, 0.02),
\* has gone past the snapped pointer (0.5, 0) to (0.75, 0).
EndpointOvershoots ==
    /\ EndpointDragged
    /\ dragOffset.kind = "start"
    /\ \E k \in 1..Len(walls) :
          /\ walls[k].id = movingWallId
          /\ walls[k].start = <<75, 0>>
          /\ walls[k].end = <<100, 0>>

-----------------------------------------------------------------------------
(* Drawing a wall as one gesture: mouse-down in wall mode, mouse-moves,      *)
(* mouse-up, then undo and redo (src/src/hooks/useCanvas.ts:788-802,         *)
(* 820-826, 950-961; src/unnamed/part_011:19-68).  Before the gesture the    *)
(* editor is used freely.  gestureBase is the history at the mouse-down and  *)
(* gestureResult the present at the mouse-up.                                *)

GestureFrame ==
    /\ UNCHANGED <<rooms, viewerRooms>>
    /\ UNCHANGED normVars
    /\ UNCHANGED toolVars
    /\ UNCHANGED aiVars
    /\ UNCHANGED nestVars
    /\ UNCHANGED viewerVars
    /\ UNCHANGED concVars

InitGesture ==
    /\ \/ walls = <<>> /\ objects = <<>> /\ selectedId = 0 /\ nextId = 1
       \/ /\ walls = <<SavedWall>>
          /\ objects = <<SavedDoor>>
          /\ selectedId \in {0, 1, 2}
          /\ nextId = 3
    /\ past = <<>>
    /\ future = <<>>
    /\ mode = "select"
    /\ activeWallId = 0
    /\ movingWallId = 0
    /\ movingObjectId = 0
    /\ dragOffset = NoDrag
    /\ rooms = <<>>
    /\ viewerRooms = <<>>
    /\ NormIdle
    /\ ToolIdle
    /\ AiIdle
    /\ ExtIdle
    /\ pc = "editing"

\* handleMouseDown in wall mode, the gesture followed from here on
GestureDown ==
    /\ pc = "editing"
    /\ NoGesture
    /\ mode = "wall"
    /\ Len(walls) < MaxEditorWalls /\ Len(past) < MaxPast /\ nextId <= MaxIds
    /\ \E p \in PointerPool : Becomes(MouseDownWall(History, p, nextId))
    /\ activeWallId' = nextId
    /\ nextId' = nextId + 1
    /\ gestureBase' = <<History>>
    /\ pc' = "drawing"
    /\ UNCHANGED <<mode, movingWallId, movingObjectId, dragOffset, gestureResult>>
    /\ GestureFrame

\* Mutant of GestureMove: each mouse-move makes a history entry.
GestureMoveRecorded ==
    /\ pc = "drawing"
    /\ Len(past) < MaxPast
    /\ \E p \in PointerPool :
          Becomes(set(History,
                      handleMouseMove(Present, p, activeWallId, movingObjectId,
                                      movingWallId, dragOffset), FALSE))
    /\ UNCHANGED <<mode, activeWallId, movingWallId, movingObjectId, dragOffset,
                   nextId, pc>>
    /\ UNCHANGED traceVars
    /\ GestureFrame

\* handleMouseMove while the wall is drawn
GestureMove ==
    /\ pc = "drawing"
    /\ \E p \in PointerPool :
          Becomes(set(History,
                      handleMouseMove(Present, p, activeWallId, movingObjectId,
                                      movingWallId, dragOffset), TRUE))
    /\ UNCHANGED <<mode, activeWallId, movingWallId, movingObjectId, dragOffset,
                   nextId, pc>>
    /\ UNCHANGED traceVars
    /\ GestureFrame

\* handleMouseUp ending the gesture
GestureUp ==
    /\ pc = "drawing"
    /\ mode' = IF activeWallId # 0 THEN "select" ELSE mode
    /\ activeWallId' = 0
    /\ movingWallId' = 0
    /\ movingObjectId' = 0
    /\ dragOffset' = NoDrag
    /\ gestureResult' = <<Present>>
    /\ pc' = "drawn"
    /\ UNCHANGED <<walls, objects, selectedId, past, future, nextId, gestureBase>>
    /\ GestureFrame

\* undo (ctrl-z) right after the gesture
GestureUndo ==
    /\ pc = "drawn"
    /\ Becomes(undo(History))
    /\ pc' = "undone"
    /\ UNCHANGED <<mode, activeWallId, movingWallId, movingObjectId, dragOffset, nextId>>
    /\ UNCHANGED traceVars
    /\ GestureFrame

\* redo (ctrl-y) right after that undo
GestureRedo ==
    /\ pc = "undone"
    /\ Becomes(redo(History))
    /\ pc' = "redone"
    /\ UNCHANGED <<mode, activeWallId, movingWallId, movingObjectId, dragOffset, nextId>>
    /\ UNCHANGED traceVars
    /\ GestureFrame

NextGesture ==
    \/ pc = "editing" /\ NextEditor
    \/ GestureDown
    \/ GestureMove
    \/ GestureUp
    \/ GestureUndo
    \/ GestureRedo

SpecGesture == InitGesture /\ [][NextGesture]_vars

\* C29: drawing a wall adds one undo entry at the mouse-down and none
\* during the mouse-moves; one undo after the mouse-up restores the walls
\* and objects (and the undo stack) of before the mouse-down, and the redo
\* that follows brings back the wall with its endpoints at the mouse-up.
\* Furniture and labels are fields of the same present record and are not
\* placed in this model.
C29_GestureIsOneUndoStep ==
    /\ pc \in {"drawing", "drawn"} =>
          past = Append(gestureBase[1].past, gestureBase[1].present)
    /\ pc = "undone" =>
          /\ walls = gestureBase[1].present.walls
          /\ objects = gestureBase[1].present.objects
          /\ past = gestureBase[1].past
    /\ pc = "redone" =>
          /\ walls = gestureResult[1].walls
          /\ objects = gestureResult[1].objects
          /\ past = Append(gestureBase[1].past, gestureBase[1].present)

\* A wall from (0,0) to (1,0) drawn next to the saved wall and its door
\* after earlier edits, undone and redone.
WallDrawnUndoneRedone ==
    /\ pc = "redone"
    /\ gestureBase[1].past # <<>>
    /\ gestureBase[1].present.objects # <<>>
    /\ Len(gestureBase[1].present.walls) = 1
    /\ Len(walls) = 2
    /\ walls[2].start # walls[2].end

-----------------------------------------------------------------------------
(* A select-mode mouse-down and the history (src/src/hooks/useCanvas.ts      *)
(* 699-786; src/unnamed/part_011:49-80) on SpecEditor.                       *)

\* A mouse-down in select mode: walls and objects stay, the selection and
\* the dragged item are set.
SelectClick == mode = "select" /\ MouseDown

\* C30: a select-mode mouse-down, which changes nothing but selectedId,
\* leaves the redo stack as it was and adds no undo entry.
C30_SelectionKeepsHistory ==
    [][SelectClick => (future' = future /\ past' = past)]_vars

\* Every select-mode mouse-down leaves walls and objects alone, adds at
\* least one undo entry and empties the redo stack.
SelectClickIsCheckpoint ==
    [][SelectClick => /\ walls' = walls
                      /\ objects' = objects
                      /\ Len(past') > Len(past)
                      /\ past'[Len(past) + 1] = Present
                      /\ future' = <<>>]_vars

\* A wall was drawn and undone, then the empty canvas was clicked: redo has
\* nothing left and undo holds the empty plan.
RedoLostByClick ==
    /\ walls = <<>>
    /\ objects = <<>>
    /\ nextId = 2
    /\ future = <<>>
    /\ Len(past) = 1
    /\ past[1].walls = <<>>
    /\ NoGesture

====
